---- MODULE Spec2Model ----
(***************************************************************************)
(* Per-call media engine of the real-time voice agent.                     *)
(*                                                                         *)
(* One state, several next-state relations, one per subsystem:             *)
(*   SpecTurn   BoundedSpeechQueue, RouteTurnThread, MainEventLoop's       *)
(*              barge-in, ACSMediaHandler.start/stop                       *)
(*              (apps/rtagent/backend/api/v1/handlers/acs_media_lifecycle) *)
(*   LiveTurn   SpecTurn with the fairness of the asyncio scheduler        *)
(*   SpecQueue  the speech queue and the router alone                      *)
(*   SpecBarge  barge-in against direct playbacks on a free-running clock  *)
(***************************************************************************)
EXTENDS Integers, Sequences, FiniteSets, TLC

\* ------------------------------------------------------------------ bounds
\* SPEECH_QUEUE_MAXSIZE of the model (the environment variable configures it)
SpeechQueueMaxsize == 2
\* speech events put on the queue in one run
MaxEvents == 4
\* WebSocket connections opened for the one call_connection_id in one run
MaxConnections == 3
\* AudioMetadata frames received in one run
MaxMetadata == 2
\* AudioData frames received in one run
MaxAudio == 3
\* frames discarded in one run
MaxBadFrames == 2
\* MAX_CONCURRENT_AUDIO_TASKS, the size of audio_processing_semaphore (default 50)
MaxConcurrentAudioTasks == 1
\* maxsize of audio_overflow_buffer (20 in the code)
AudioOverflowMaxsize == 1
\* Partial results delivered by the recognizer in one run
MaxPartials == 2
\* the free-running clock of SpecBarge stops here unless a sleep is pending
MaxTime == 1

\* non-blank characters of a Partial's text
MaxPartialChars == 4

\* calls of a stop method of one handler
MaxStopCalls == 3

\* DTMF tones of one call
MaxTones == 4

\* transcription messages handled in a call
MaxTranscripts == 5

\* turns of a call that persist the conversation memory
MaxPersists == 2

\* speech events queued while producers and consumers of the queue interleave
MaxRaceEvents == 5

\* chunks of the model's streamed responses within one user turn
MaxChunks == 4

\* largest retry-after header value, in seconds
MaxRetryAfter == 9

\* gpt_flow.py retry configuration; times in tenths of a second
AOAI_RETRY_MAX_ATTEMPTS == 4

AOAI_RETRY_BASE_DELAY_SEC == 5

AOAI_RETRY_MAX_DELAY_SEC == 80

AOAI_RETRY_BACKOFF_FACTOR == 2

AOAI_RETRY_JITTER_SEC == 2

\* --------------------------------------------------------------- constants
\* asyncio.sleep(0.1) of _reset_barge_in_state, in clock ticks of 50 ms
BargeResetTicks == 2

VARIABLES
    \* --- BoundedSpeechQueue
    speech_queue,          \* [items, high_watermark, dropped_events]
    enqLog,                \* type of every event put so far; event k has id k
    putResults,            \* return values of put_nowait_or_drop_oldest, in call order
    getCount,              \* items taken out by the router or by a drain
    \* --- ACSMediaHandler lifecycle
    handler_running,       \* ACSMediaHandler.running
    handler_stopped,       \* ACSMediaHandler._stopped
    stopPc,                \* position of the coroutine running ACSMediaHandler.stop
    recognizer_stopped,    \* SpeechSDKThread._stopped
    rt_stopped,            \* RouteTurnThread._stopped
    stopCalls,             \* calls of ACSMediaHandler.stop and SpeechSDKThread.stop so far
    stopLog,               \* the stop steps executed, in order
    \* --- RouteTurnThread
    rt_running,            \* RouteTurnThread.running
    routerPc,              \* position of _processing_loop
    current_response_task, \* id of the task referenced, 0 for None
    respTask,              \* [id, state] of the playback task created last
    orchRunning,           \* id of the event whose orchestrator call is running, else 0
    llmInvocations,        \* ids handed to orchestrator_func, in order
    playbacks,             \* ids handed to send_response_to_acs, in order
    turnErrors,            \* ids of the events whose orchestrator call or playback raised
    \* --- MainEventLoop barge-in
    barge_in_active,       \* threading.Event
    nPartials,             \* Partial results seen so far
    bpc,                   \* position of the i-th scheduled handle_barge_in coroutine
    bsched,                \* time at which the i-th handler was scheduled
    bStartResp,            \* response running when the i-th handler passed the flag
    cancelInvoked,         \* handlers that called cancel_current_processing
    stopAudioSent,         \* handlers that sent StopAudio
    cancelChars,           \* per barge-in that cancelled: the non-blank characters of its Partial
    cancelRaised,          \* handlers whose awaited response task ended with an error
    stopAudioFailed,       \* handlers whose StopAudio send raised
    bwake,                 \* per handler awaiting the cancelled task: how that task ended
    lostFinals,            \* Finals a barge-in's drain took off the queue although they
                           \* were put there after that barge-in was scheduled
    loopReady,             \* callbacks ready to run on the main loop, FIFO
    timers,                \* pending asyncio.sleep deadlines of reset tasks
    now,                   \* clock
    \* --- MainEventLoop validation gate and greeting
    dtmf_validation_enabled, \* settings.DTMF_VALIDATION_ENABLED
    greeting_text,         \* whether ACSMediaHandler.greeting_text is non-empty
    validation_gate_open,  \* MainEventLoop._validation_gate_open
    validation_log_once,   \* MainEventLoop._validation_log_once
    greeting_played,       \* MainEventLoop.greeting_played
    validation_task,       \* MainEventLoop._validation_task: "none", "waiting", "done"
    waiterResults,         \* how each validation waiter ended, in order
    recognizer_starts,     \* calls of SpeechSDKThread.start_recognizer
    nMetadata,             \* AudioMetadata frames handled
    nAudio,                \* AudioData frames handled
    framesWhileClosed,     \* AudioData frames handled with validation on and the gate closed
    forwardedWhileClosed,  \* of those, frames handed to _process_audio_with_backpressure
    forwarded,             \* frames handed to _process_audio_with_backpressure
    closedGateLogs,        \* emissions of the closed-gate info log
    nNonSilent,            \* AudioData frames handled that were not silent
    discards,              \* the frames discarded as malformed or of no handled kind:
                           \* how many, and how many AudioMetadata and AudioData frames
                           \* had been handled before the last of them
    \* --- MainEventLoop audio backpressure
    sem_value,             \* free slots of audio_processing_semaphore
    overflow,              \* frames in audio_overflow_buffer
    nAcquiring,            \* calls of _process_audio_with_backpressure waiting for a slot
    nWriting,              \* of those calls, the ones inside _process_audio_chunk_async
    drainPc,               \* buffer_processing_task: "none", "loop", "acquiring",
                           \* "writing", "done"
    processed_frames_count,
    dropped_frames_count,
    written,               \* frames recognizer.write_bytes has taken
    dropLog,               \* per frame dropped for overflow: free slots and buffer size then
    \* --- endpoints/media.py: the handler registry, for one call_connection_id
    active_handlers,       \* _active_handlers[call_connection_id]: a handler, 0 when absent
    h_running,             \* ACSMediaHandler.running of the handler each connection creates
    h_stopped,             \* ACSMediaHandler._stopped of that handler
    connPc,                \* position of each WebSocket connection's endpoint coroutine
    existing_handler,      \* the handler a connection found registered, 0 when none
    installLog,            \* per installation: the handler, the one found at arrival,
                           \* and the handlers running just before
    stt_pool,              \* app.state.stt_pool: recognizers ready to be acquired
    tts_pool,              \* app.state.tts_pool: synthesizers ready to be acquired
    stt_held,              \* per connection: its recognizer is out of the pool
    stt_free,              \* the recognizer instances in app.state.stt_pool
    recognizer_of,         \* per connection: the instance its handler was built with, or 0
    stopRun,               \* per handler: 0, the connection whose stop() call is at work,
                           \* or StopDone
    tts_held,              \* per connection: its synthesizer is out of the pool
    teardown,              \* per handler: the stop and release steps taken, in order
    cleanupRemoved,        \* [by, removed]: registry entry deleted by a connection's cleanup
    \* --- src/handlers/acs_media_handler.py: the queue-based ACSMediaHandler
    recognizer_started,    \* _recognizer_started
    playback_task,         \* the task self.playback_task refers to, 0 for None
    route_turn_queue,      \* asyncio.Queue of ("final", text), as the ids of the finals
    barge_in_event,        \* _barge_in_event
    tasks,                 \* state of the playback tasks: 1 the greeting, k + 1 final k's
    scheduled,             \* coroutines handed to the main loop by the SDK thread, FIFO
    bargePc,               \* position of each _handle_barge_in_async coroutine
    awaited,               \* the task each of them (and the loop, index 0) awaits
    routePc,               \* position of route_turn_loop
    turn,                  \* the final route_turn_loop holds
    nFinals,               \* on_final calls so far
    nBargeIns,             \* _handle_barge_in_async coroutines scheduled so far
    \* --- orchestration/gpt_flow.py: _openai_stream_with_retry
    attempts,              \* attempts
    retryPc,               \* "loop", "sleeping", "returned", "raised"
    outcomes,              \* how each attempt ended: "ok", "retryable", "fatal"
    delays,                \* per sleep: the delay (tenths of a second) and the header seen
    exc,                   \* the exception _should_retry was last asked about
    should_retry,          \* its answer
    classified,            \* TRUE once _should_retry has been asked
    \* --- orchestration/gpt_flow.py: process_gpt_response
    flowPc,                \* "idle", "stream", "tool", "done", "raised"
    agent_history,         \* cm.get_history(agent_name)
    collected,             \* _consume_openai_stream: deltas not flushed yet
    final_chunks,          \* _consume_openai_stream: the chunks emitted, in order
    tool,                  \* _ToolCallState: started, call_id
    nChunks,               \* stream chunks consumed so far
    turns,                 \* calls of process_gpt_response made for a user turn
    reentries,             \* calls of process_gpt_response made by _process_tool_followup
    tool_responses,        \* streams of the turn that ended with a tool call started
    \* --- src/handlers/acs_handler.py: the DTMF events of one call
    target_participant_joined, \* context "target_participant_joined"
    dtmf_started,          \* context "dtmf_started"
    dtmf_sequence,         \* context "dtmf_sequence", a string
    dtmf_validated,        \* context "dtmf_validated"
    toneLog,                \* per sequenceId: the tone delivered with it, or "none"
    \* --- TranscriptionHandler (_backup/handlers/acs_transcript_handler.py)
    interrupt_count,       \* cm.context["interrupt_count"]
    transcripts,           \* the messages handled so far: status and bot_speaking
    \* --- the conversation memory of the call: the store's copy is dtmf_sequence,
    \* dtmf_validated and store_history; the media handler holds its own
    turn_cm,               \* the MemoManager of the media handler: [loaded, dtmf_sequence,
                           \* dtmf_validated, history]
    store_history,         \* assistant messages in the persisted history
    \* --- the speech queue shared by the recognizer thread and the main loop
    tpc,                   \* the recognizer thread's position in queue_speech_result
    tEvent,                \* the event that call is queueing
    pendingPuts,           \* events whose speech_queue.put() is scheduled on the main loop
    processedLog,          \* ids of the events the router took, in order
    drainedLog,            \* ids of the events a barge-in drain removed
    droppedLog             \* ids of the events the overflow policy removed

queueVars == <<speech_queue, enqLog, putResults, getCount>>

lifeVars == <<handler_running, handler_stopped, stopPc, recognizer_stopped, rt_stopped,
              stopCalls, stopLog>>

routerVars == <<rt_running, routerPc, current_response_task, respTask, orchRunning,
                llmInvocations, playbacks, turnErrors>>

bargeVars == <<barge_in_active, nPartials, bpc, bsched, bStartResp, cancelInvoked,
               stopAudioSent, lostFinals, cancelChars, cancelRaised, stopAudioFailed, bwake>>

loopVars == <<loopReady, timers, now>>

turnVars == <<queueVars, lifeVars, routerVars, bargeVars, loopVars>>

gateConfig == <<dtmf_validation_enabled, greeting_text>>

gateState == <<validation_gate_open, validation_log_once, greeting_played, validation_task,
               waiterResults, recognizer_starts, nMetadata>>

audioVars == <<nAudio, framesWhileClosed, forwardedWhileClosed, forwarded, closedGateLogs,
               nNonSilent>>

bpVars == <<sem_value, overflow, nAcquiring, nWriting, drainPc, processed_frames_count,
            dropped_frames_count, written, dropLog>>

mediaVars == <<discards, bpVars>>

gateVars == <<gateConfig, gateState, audioVars>>

regVars == <<active_handlers, h_running, h_stopped, connPc, existing_handler, installLog,
             stt_pool, tts_pool, stt_held, tts_held, teardown, cleanupRemoved,
             stt_free, recognizer_of, stopRun>>

poolVars == <<stt_pool, tts_pool, stt_held, tts_held, stt_free, recognizer_of>>

legacyVars == <<recognizer_started, playback_task, route_turn_queue, barge_in_event, tasks,
                scheduled, bargePc, awaited, routePc, turn, nFinals, nBargeIns>>

retryVars == <<attempts, retryPc, outcomes, delays, exc, should_retry, classified>>

streamVars == <<collected, final_chunks, tool, nChunks>>

respVars == <<flowPc, agent_history, streamVars, turns, reentries, tool_responses>>

flowVars == <<retryVars, respVars>>

dtmfVars == <<target_participant_joined, dtmf_started, dtmf_sequence, dtmf_validated, toneLog>>

transcriptVars == <<interrupt_count, transcripts>>

memoVars == <<turn_cm, store_history>>

raceVars == <<tpc, tEvent, pendingPuts, processedLog, drainedLog, droppedLog>>

acsVars == <<dtmfVars, transcriptVars, memoVars, raceVars>>

\* what the call-event handlers leave alone
nonDtmfVars == <<turnVars, gateVars, mediaVars, regVars, legacyVars, flowVars, transcriptVars,
                 memoVars, raceVars>>

\* what the transcription handler leaves alone
nonTranscriptVars == <<turnVars, gateVars, mediaVars, regVars, legacyVars, flowVars, dtmfVars,
                       memoVars, raceVars>>

\* what the writers of the conversation memory leave alone
nonMemoVars == <<turnVars, gateVars, mediaVars, regVars, legacyVars, flowVars, transcriptVars,
                 target_participant_joined, dtmf_started, toneLog, raceVars>>

\* what the operations on the shared speech queue leave alone
nonRaceVars == <<getCount, lifeVars, routerVars, bargeVars, loopVars, gateVars, mediaVars,
                 regVars, legacyVars, flowVars, dtmfVars, transcriptVars, memoVars>>

\* what belongs to no media handler
restVars == <<regVars, legacyVars, flowVars, acsVars>>

\* what the actions of one call's handler leave alone, the audio path apart
nonCallVars == <<restVars, mediaVars>>

nonRegistryVars == <<turnVars, gateVars, mediaVars, legacyVars, flowVars, acsVars>>

nonLegacyVars == <<turnVars, gateVars, mediaVars, regVars, flowVars, acsVars>>

nonFlowVars == <<turnVars, gateVars, mediaVars, regVars, legacyVars, acsVars>>

nonAcsVars == <<turnVars, gateVars, mediaVars, regVars, legacyVars, flowVars>>

\* what the speech-turn actions leave alone
nonTurnVars == <<gateVars, nonCallVars>>

vars == <<turnVars, gateVars, mediaVars, regVars, legacyVars, flowVars, acsVars>>

\* ------------------------------------------------------------ speech events
DirectTypes == {"greeting", "announcement", "status", "error_msg"}

\* the playback types queue_direct_text_playback is called with here
PlaybackInputs == {"announcement"}

SpeechEvent(t, i) == [type |-> t, id |-> i]

\* ------------------------------------------------------- BoundedSpeechQueue
EmptyQueue == [items |-> <<>>, high_watermark |-> 0, dropped_events |-> 0]

qsize(sq) == Len(sq.items)

QueueFull(sq) == qsize(sq) >= SpeechQueueMaxsize

update_hwm(sq) ==
    IF qsize(sq) > sq.high_watermark
    THEN [sq EXCEPT !.high_watermark = qsize(sq)]
    ELSE sq

\* the overflow policy with the roles swapped: the arriving end of the queue is cut
drop_newest(sq) ==
    [sq EXCEPT !.items = SubSeq(sq.items, 1, Len(sq.items) - 1),
               !.dropped_events = sq.dropped_events + 1]

\* the except branch: get_nowait() takes the oldest item out, the counter is incremented
drop_oldest(sq) ==
    [sq EXCEPT !.items = Tail(sq.items),
               !.dropped_events = sq.dropped_events + 1]

\* the queue after the call, and the value the call returns: put_nowait, and on
\* QueueFull get_nowait, the counter, put_nowait again; False when that raises
put_nowait_or_drop_oldest(sq, item) ==
    IF ~QueueFull(sq)
    THEN [q |-> update_hwm([sq EXCEPT !.items = Append(sq.items, item)]), ok |-> TRUE]
    ELSE IF sq.items = <<>>
    THEN [q |-> sq, ok |-> FALSE]
    ELSE IF QueueFull(drop_oldest(sq))
    THEN [q |-> drop_oldest(sq), ok |-> FALSE]
    ELSE [q |-> update_hwm([drop_oldest(sq) EXCEPT !.items = Append(@, item)]),
          ok |-> TRUE]

\* ThreadBridge.queue_speech_result on the instrumented queue
queue_speech_result(t) ==
    LET r == put_nowait_or_drop_oldest(speech_queue, SpeechEvent(t, Len(enqLog) + 1))
    IN  /\ speech_queue' = r.q
        /\ putResults' = Append(putResults, r.ok)
        /\ enqLog' = Append(enqLog, t)
        /\ UNCHANGED getCount

\* --------------------------------------------------------------------- Init
InitTurn ==
    /\ speech_queue = EmptyQueue
    /\ enqLog = <<>>
    /\ putResults = <<>>
    /\ getCount = 0
    /\ handler_running = FALSE
    /\ handler_stopped = FALSE
    /\ stopPc = "idle"
    /\ recognizer_stopped = FALSE
    /\ rt_stopped = FALSE
    /\ stopCalls = 0
    /\ stopLog = <<>>
    /\ rt_running = FALSE
    /\ routerPc = "not_started"
    /\ current_response_task = 0
    /\ respTask = [id |-> 0, state |-> "none"]
    /\ orchRunning = 0
    /\ llmInvocations = <<>>
    /\ playbacks = <<>>
    /\ turnErrors = {}
    /\ barge_in_active = FALSE
    /\ nPartials = 0
    /\ bpc = [i \in 1..MaxPartials |-> "unscheduled"]
    /\ bsched = [i \in 1..MaxPartials |-> 0]
    /\ bStartResp = [i \in 1..MaxPartials |-> 0]
    /\ cancelInvoked = {}
    /\ stopAudioSent = {}
    /\ lostFinals = {}
    /\ cancelChars = [i \in 1..MaxPartials |-> 0]
    /\ cancelRaised = {}
    /\ stopAudioFailed = {}
    /\ bwake = [i \in 1..MaxPartials |-> "none"]
    /\ loopReady = <<>>
    /\ timers = {}
    /\ now = 0

InitGateState ==
    /\ validation_gate_open = FALSE
    /\ validation_log_once = FALSE
    /\ greeting_played = FALSE
    /\ validation_task = "none"
    /\ waiterResults = <<>>
    /\ recognizer_starts = 0
    /\ nMetadata = 0
    /\ nAudio = 0
    /\ framesWhileClosed = 0
    /\ forwardedWhileClosed = 0
    /\ forwarded = 0
    /\ closedGateLogs = 0
    /\ nNonSilent = 0
    /\ discards = [n |-> 0, after |-> 0]
    /\ sem_value = MaxConcurrentAudioTasks
    /\ overflow = 0
    /\ nAcquiring = 0
    /\ nWriting = 0
    /\ drainPc = "none"
    /\ processed_frames_count = 0
    /\ dropped_frames_count = 0
    /\ written = 0
    /\ dropLog = <<>>

\* main.py: AsyncPool(make_stt, POOL_SIZE_STT) and AsyncPool(make_tts, POOL_SIZE_TTS),
\* sized here so that every connection of the model finds an instance when none
\* is lost
POOL_SIZE_STT == MaxConnections

POOL_SIZE_TTS == MaxConnections

\* media.py: `_active_handlers = {}`; no connection yet; both pools prepared
InitRegistry ==
    /\ active_handlers = 0
    /\ h_running = [h \in 1..MaxConnections |-> FALSE]
    /\ h_stopped = [h \in 1..MaxConnections |-> FALSE]
    /\ connPc = [c \in 1..MaxConnections |-> "new"]
    /\ existing_handler = [c \in 1..MaxConnections |-> 0]
    /\ installLog = <<>>
    /\ stt_pool = POOL_SIZE_STT
    /\ tts_pool = POOL_SIZE_TTS
    /\ stt_held = [c \in 1..MaxConnections |-> FALSE]
    /\ tts_held = [c \in 1..MaxConnections |-> FALSE]
    /\ teardown = [h \in 1..MaxConnections |-> <<>>]
    /\ cleanupRemoved = {}
    /\ stt_free = 1..POOL_SIZE_STT
    /\ recognizer_of = [c \in 1..MaxConnections |-> 0]
    /\ stopRun = [h \in 1..MaxConnections |-> 0]

\* src/handlers ACSMediaHandler.__init__
InitLegacy ==
    /\ recognizer_started = FALSE
    /\ playback_task = 0
    /\ route_turn_queue = <<>>
    /\ barge_in_event = FALSE
    /\ tasks = [t \in 1..(MaxEvents + 1) |-> "none"]
    /\ scheduled = <<>>
    /\ bargePc = [i \in 1..MaxPartials |-> "unscheduled"]
    /\ awaited = [i \in 0..MaxPartials |-> 0]
    /\ routePc = "not_started"
    /\ turn = 0
    /\ nFinals = 0
    /\ nBargeIns = 0

\* gpt_flow.py: _openai_stream_with_retry is entered (`attempts = 0`)
InitFlow ==
    /\ attempts = 0
    /\ retryPc = "loop"
    /\ outcomes = <<>>
    /\ delays = <<>>
    /\ exc = [name |-> <<>>, message |-> <<>>, status |-> 0]
    /\ should_retry = FALSE
    /\ classified = FALSE
    /\ flowPc = "idle"
    /\ agent_history = <<>>
    /\ collected = <<>>
    /\ final_chunks = <<>>
    /\ tool = [started |-> FALSE, call_id |-> "None"]
    /\ nChunks = 0
    /\ turns = 0
    /\ reentries = 0
    /\ tool_responses = 0

\* acs_handler.py: a call before its first event; an unset context key reads as
\* False or ""
InitAcs ==
    /\ target_participant_joined = FALSE
    /\ dtmf_started = FALSE
    /\ dtmf_sequence = <<>>
    /\ dtmf_validated = FALSE
    /\ toneLog = [k \in 1..MaxTones |-> "none"]
    /\ interrupt_count = 0
    /\ transcripts = <<>>
    /\ turn_cm = [loaded |-> FALSE, dtmf_sequence |-> <<>>, dtmf_validated |-> FALSE,
                  history |-> 0]
    /\ store_history = 0
    /\ tpc = "idle"
    /\ tEvent = SpeechEvent("none", 0)
    /\ pendingPuts = <<>>
    /\ processedLog = <<>>
    /\ drainedLog = <<>>
    /\ droppedLog = <<>>

\* the deployment the speech-turn specifications run in: validation on, the
\* default GREETING
Init ==
    /\ InitTurn
    /\ InitGateState
    /\ InitRegistry
    /\ InitLegacy
    /\ InitFlow
    /\ InitAcs
    /\ dtmf_validation_enabled = TRUE
    /\ greeting_text = TRUE

\* any deployment: validation on or off, a greeting configured or not
InitGate ==
    /\ InitTurn
    /\ InitGateState
    /\ InitRegistry
    /\ InitLegacy
    /\ InitFlow
    /\ InitAcs
    /\ dtmf_validation_enabled \in BOOLEAN
    /\ greeting_text \in BOOLEAN

\* ------------------------------------------------- ACSMediaHandler.start
\* running is set, the main loop captured, the router's processing task created
HandlerStart ==
    /\ ~handler_running /\ ~handler_stopped /\ routerPc = "not_started"
    /\ handler_running' = TRUE
    /\ rt_running' = TRUE
    /\ routerPc' = "get"
    /\ UNCHANGED <<handler_stopped, stopPc, recognizer_stopped, rt_stopped, stopCalls,
                   stopLog>>
    /\ UNCHANGED <<current_response_task, respTask, orchRunning, llmInvocations,
                   playbacks, turnErrors>>
    /\ UNCHANGED <<queueVars, bargeVars, loopVars>>
    /\ UNCHANGED nonTurnVars

\* ------------------------------------------- recognizer thread callbacks
RecognizerLive == handler_running /\ ~recognizer_stopped

\* on_final: a FINAL event goes onto the speech queue
OnFinal ==
    /\ RecognizerLive
    /\ Len(enqLog) < MaxEvents
    /\ queue_speech_result("final")
    /\ UNCHANGED <<lifeVars, routerVars, bargeVars, loopVars>>
    /\ UNCHANGED nonTurnVars

\* on_error (the cancel callback): an ERROR event goes onto the speech queue
OnError ==
    /\ RecognizerLive
    /\ Len(enqLog) < MaxEvents
    /\ queue_speech_result("error")
    /\ UNCHANGED <<lifeVars, routerVars, bargeVars, loopVars>>
    /\ UNCHANGED nonTurnVars

\* ACSMediaHandler.queue_direct_text_playback
QueueDirectTextPlayback ==
    /\ handler_running
    /\ Len(enqLog) < MaxEvents
    /\ \E t \in PlaybackInputs : queue_speech_result(t)
    /\ UNCHANGED <<lifeVars, routerVars, bargeVars, loopVars>>
    /\ UNCHANGED nonTurnVars

\* on_partial(text, ...), text having `chars` non-blank characters:
\* ThreadBridge.schedule_barge_in puts handle_barge_in on the main loop
OnPartialOf(chars) ==
    /\ RecognizerLive
    /\ nPartials < MaxPartials
    /\ nPartials' = nPartials + 1
    /\ bpc' = [bpc EXCEPT ![nPartials + 1] = "ready"]
    /\ bsched' = [bsched EXCEPT ![nPartials + 1] = now]
    /\ loopReady' = Append(loopReady, [kind |-> "barge", i |-> nPartials + 1,
                                       enq |-> Len(enqLog), chars |-> chars])
    /\ UNCHANGED <<barge_in_active, bStartResp, cancelInvoked, stopAudioSent, lostFinals,
                   cancelChars, cancelRaised, stopAudioFailed, bwake>>
    /\ UNCHANGED <<timers, now>>
    /\ UNCHANGED <<queueVars, lifeVars, routerVars>>
    /\ UNCHANGED nonTurnVars

\* a Partial of a speaker well into a word
OnPartial == OnPartialOf(MaxPartialChars)

\* a Partial of any length
OnPartialAnyLength == \E chars \in 1..MaxPartialChars : OnPartialOf(chars)

\* ------------------------------------------------------- RouteTurnThread
\* where the loop goes after an event: `while self.running`
LoopTop == IF rt_running THEN "get" ELSE "exited"

\* a loop that treats the cancellation of one event as its own
LoopEndsOnCancel == "exited"

\* the loop's reaction to CancelledError out of an event's processing: continue
LoopAfterCancelled == LoopTop

\* a queue that hands out its newest item
NewestItem(items) == items[Len(items)]

\* the item speech_queue.get() hands to the router, and what stays queued
NextItem(items) == Head(items)

RestItems(items) == Tail(items)

TaskDone(t) == t.state \in {"done", "cancelled", "failed"}

\* _processing_loop: wait_for(speech_queue.get()) returns, the event is dispatched
RouterGet ==
    /\ routerPc = "get"
    /\ speech_queue.items # <<>>
    /\ LET ev == NextItem(speech_queue.items) IN
        /\ speech_queue' = [speech_queue EXCEPT !.items = RestItems(@)]
        /\ getCount' = getCount + 1
        /\ IF ev.type = "final"
           THEN \* _process_final_speech: the orchestrator is awaited in the loop itself
                /\ routerPc' = "orch"
                /\ orchRunning' = ev.id
                /\ llmInvocations' = Append(llmInvocations, ev.id)
                /\ UNCHANGED <<current_response_task, respTask, playbacks>>
           ELSE IF ev.type \in DirectTypes
           THEN \* _process_direct_text_playback: a task is created and awaited
                /\ routerPc' = "play"
                /\ current_response_task' = ev.id
                /\ respTask' = [id |-> ev.id, state |-> "running"]
                /\ playbacks' = Append(playbacks, ev.id)
                /\ UNCHANGED <<orchRunning, llmInvocations>>
           ELSE \* SpeechEventType.ERROR: logged
                /\ routerPc' = LoopTop
                /\ UNCHANGED <<current_response_task, respTask, orchRunning,
                               llmInvocations, playbacks>>
    /\ UNCHANGED <<enqLog, putResults, rt_running, turnErrors>>
    /\ UNCHANGED <<lifeVars, bargeVars, loopVars>>
    /\ UNCHANGED nonTurnVars

\* _processing_loop: wait_for times out after 1 s; the loop ends once running is False
RouterTimeout ==
    /\ routerPc = "get"
    /\ routerPc' = LoopTop
    /\ UNCHANGED <<rt_running, current_response_task, respTask, orchRunning,
                   llmInvocations, playbacks, turnErrors>>
    /\ UNCHANGED <<queueVars, lifeVars, bargeVars, loopVars>>
    /\ UNCHANGED nonTurnVars

\* _process_final_speech: orchestrator_func returns or raises (the error is logged)
OrchestratorReturns ==
    /\ routerPc = "orch"
    /\ orchRunning # 0
    /\ orchRunning' = 0
    /\ routerPc' = LoopTop
    /\ UNCHANGED <<rt_running, current_response_task, respTask, llmInvocations,
                   playbacks, turnErrors>>
    /\ UNCHANGED <<queueVars, lifeVars, bargeVars, loopVars>>
    /\ UNCHANGED nonTurnVars

\* a loop that an error of a turn reaches
LoopEndsOnTurnError == "exited"

\* _process_final_speech and _process_direct_text_playback: `except Exception`
\* logs the error of the turn and the method returns to the loop
LoopAfterTurnError == LoopTop

\* _process_final_speech: orchestrator_func raises
OrchestratorRaises ==
    /\ routerPc = "orch"
    /\ orchRunning # 0
    /\ orchRunning' = 0
    /\ turnErrors' = turnErrors \cup {orchRunning}
    /\ routerPc' = LoopAfterTurnError
    /\ UNCHANGED <<rt_running, current_response_task, respTask, llmInvocations,
                   playbacks>>
    /\ UNCHANGED <<queueVars, lifeVars, bargeVars, loopVars>>
    /\ UNCHANGED nonTurnVars

\* send_response_to_acs raises: the playback task ends with the error
PlaybackTaskRaises ==
    /\ respTask.state = "running"
    /\ respTask' = [respTask EXCEPT !.state = "failed"]
    /\ turnErrors' = turnErrors \cup {respTask.id}
    /\ UNCHANGED <<rt_running, routerPc, current_response_task, orchRunning,
                   llmInvocations, playbacks>>
    /\ UNCHANGED <<queueVars, lifeVars, bargeVars, loopVars>>
    /\ UNCHANGED nonTurnVars

\* send_response_to_acs: the playback task sends its last frame (or raises)
PlaybackTaskEnds ==
    /\ respTask.state = "running"
    /\ respTask' = [respTask EXCEPT !.state = "done"]
    /\ UNCHANGED <<rt_running, routerPc, current_response_task, orchRunning,
                   llmInvocations, playbacks, turnErrors>>
    /\ UNCHANGED <<queueVars, lifeVars, bargeVars, loopVars>>
    /\ UNCHANGED nonTurnVars

\* the end of the task wakes the handlers that await it in cancel_current_processing
Woken(how) == [i \in 1..MaxPartials |-> IF bpc[i] = "await_task" /\ bwake[i] = "none"
                                        THEN how ELSE bwake[i]]

\* a task whose cancel() was called receives CancelledError at its next step
PlaybackTaskCancelled ==
    /\ respTask.state = "cancelling"
    /\ respTask' = [respTask EXCEPT !.state = "cancelled"]
    /\ bwake' = Woken("cancelled")
    /\ UNCHANGED <<rt_running, routerPc, current_response_task, orchRunning,
                   llmInvocations, playbacks, turnErrors>>
    /\ UNCHANGED <<barge_in_active, nPartials, bpc, bsched, bStartResp, cancelInvoked,
                   stopAudioSent, lostFinals, cancelChars, cancelRaised, stopAudioFailed>>
    /\ UNCHANGED <<queueVars, lifeVars, loopVars>>
    /\ UNCHANGED nonTurnVars

\* a cancelled task whose clean-up raises ends with that error
PlaybackTaskCancelledRaises ==
    /\ respTask.state = "cancelling"
    /\ respTask' = [respTask EXCEPT !.state = "failed"]
    /\ bwake' = Woken("failed")
    /\ UNCHANGED <<rt_running, routerPc, current_response_task, orchRunning,
                   llmInvocations, playbacks, turnErrors>>
    /\ UNCHANGED <<barge_in_active, nPartials, bpc, bsched, bStartResp, cancelInvoked,
                   stopAudioSent, lostFinals, cancelChars, cancelRaised, stopAudioFailed>>
    /\ UNCHANGED <<queueVars, lifeVars, loopVars>>
    /\ UNCHANGED nonTurnVars

\* _process_direct_text_playback resumes from `await self.current_response_task`:
\* the finally clause clears the reference; CancelledError is re-raised to the loop
RouterAfterPlayback ==
    /\ routerPc = "play"
    /\ TaskDone(respTask)
    /\ current_response_task' = 0
    /\ routerPc' = IF respTask.state = "cancelled" THEN LoopAfterCancelled
                   ELSE IF respTask.state = "failed" THEN LoopAfterTurnError
                   ELSE LoopTop
    /\ UNCHANGED <<rt_running, respTask, orchRunning, llmInvocations, playbacks, turnErrors>>
    /\ UNCHANGED <<queueVars, lifeVars, bargeVars, loopVars>>
    /\ UNCHANGED nonTurnVars

\* ------------------------------------------------ MainEventLoop barge-in
Range(f) == {f[x] : x \in DOMAIN f}

\* a handler that never finds the flag set
FlagIgnored == FALSE

\* handle_barge_in: `if self.barge_in_active.is_set(): return`
BargeInAlreadyActive == barge_in_active

\* a test that looks at the reference alone
TaskReferenced == current_response_task # 0

\* cancel_current_processing: `current_response_task and not current_response_task.done()`
ResponseTaskCancellable == current_response_task # 0 /\ ~TaskDone(respTask)

\* the response chain running right now: an orchestrator call or a playback task
RunningResponse ==
    IF orchRunning # 0 THEN orchRunning
    ELSE IF respTask.state \in {"running", "cancelling"} THEN respTask.id
    ELSE 0

\* cancel_current_processing up to its first suspension: the queue is emptied and
\* the response task, when there is one, is cancelled
CancelCurrentProcessingSync ==
    /\ getCount' = getCount + Len(speech_queue.items)
    /\ speech_queue' = [speech_queue EXCEPT !.items = <<>>]
    /\ respTask' = IF ResponseTaskCancellable
                   THEN [respTask EXCEPT !.state = "cancelling"]
                   ELSE respTask
    /\ UNCHANGED <<enqLog, putResults>>

\* an error of the awaited task that leaves cancel_current_processing
CancelErrorPropagates == FALSE

\* cancel_current_processing: `except Exception as e: logger.error(...)`
CancelErrorLogged == TRUE

\* _send_stop_audio_command: websocket.send_text returns, or raises and the error
\* is logged
SendStopAudioCommand(i, ok) ==
    IF ok
    THEN stopAudioSent' = stopAudioSent \cup {i} /\ UNCHANGED stopAudioFailed
    ELSE stopAudioFailed' = stopAudioFailed \cup {i} /\ UNCHANGED stopAudioSent

\* the handle_barge_in coroutine at the head of the ready queue runs up to its first
\* suspension: flag check, flag set, _cancel_current_playback (current_playback_task
\* is never assigned, so nothing to cancel), cancel_current_processing; oks are
\* the outcomes send_text may have
HandleBargeInOf(oks) ==
    /\ loopReady # <<>>
    /\ Head(loopReady).kind = "barge"
    /\ loopReady' = Tail(loopReady)
    /\ LET i == Head(loopReady).i IN
        IF BargeInAlreadyActive
        THEN /\ bpc' = [bpc EXCEPT ![i] = "skipped"]
             /\ UNCHANGED <<queueVars, respTask, barge_in_active, bStartResp,
                            cancelInvoked, stopAudioSent, lostFinals,
                   cancelChars, cancelRaised, stopAudioFailed, bwake>>
        ELSE /\ barge_in_active' = TRUE
             /\ cancelChars' = [cancelChars EXCEPT ![i] = Head(loopReady).chars]
             /\ lostFinals' = lostFinals \cup
                    {ev.id : ev \in {e \in Range(speech_queue.items) :
                                        e.type = "final" /\ e.id > Head(loopReady).enq}}
             /\ bStartResp' = [bStartResp EXCEPT ![i] = RunningResponse]
             /\ cancelInvoked' = cancelInvoked \cup {i}
             /\ CancelCurrentProcessingSync
             /\ IF ResponseTaskCancellable
                THEN \* `await self.current_response_task`
                     /\ bpc' = [bpc EXCEPT ![i] = "await_task"]
                     /\ UNCHANGED <<stopAudioSent, stopAudioFailed>>
                ELSE \* _send_stop_audio_command: websocket.send_text
                     /\ bpc' = [bpc EXCEPT ![i] = "sending"]
                     /\ \E ok \in oks : SendStopAudioCommand(i, ok)
             /\ UNCHANGED <<cancelRaised, bwake>>
    /\ UNCHANGED <<nPartials, bsched, timers, now>>
    /\ UNCHANGED <<rt_running, routerPc, current_response_task, orchRunning,
                   llmInvocations, playbacks, turnErrors>>
    /\ UNCHANGED lifeVars
    /\ UNCHANGED nonTurnVars

\* a websocket whose send_text returns
HandleBargeIn == HandleBargeInOf({TRUE})

\* a websocket whose send_text returns or raises
HandleBargeInSendMayFail == HandleBargeInOf(BOOLEAN)

\* cancel_current_processing resumes once the cancelled task is done (an error it
\* ended with is logged there), then handle_barge_in sends StopAudio
BargeInAfterCancelOf(i, oks) ==
    /\ bpc[i] = "await_task"
    /\ bwake[i] # "none"
    /\ bpc' = [bpc EXCEPT ![i] = "sending"]
    /\ cancelRaised' = IF bwake[i] = "failed" THEN cancelRaised \cup {i} ELSE cancelRaised
    /\ IF bwake[i] = "failed" /\ ~CancelErrorLogged
       THEN \* the error ends the try block of handle_barge_in
            UNCHANGED <<stopAudioSent, stopAudioFailed>>
       ELSE \E ok \in oks : SendStopAudioCommand(i, ok)
    /\ UNCHANGED <<barge_in_active, nPartials, bsched, bStartResp, cancelInvoked, lostFinals,
                   cancelChars, bwake>>
    /\ UNCHANGED <<queueVars, lifeVars, routerVars, loopVars>>
    /\ UNCHANGED nonTurnVars

BargeInAfterCancel(i) == BargeInAfterCancelOf(i, {TRUE})

BargeInAfterCancelSendMayFail(i) == BargeInAfterCancelOf(i, BOOLEAN)

\* handle_barge_in, finally: asyncio.create_task(self._reset_barge_in_state())
BargeInFinish(i) ==
    /\ bpc[i] = "sending"
    /\ bpc' = [bpc EXCEPT ![i] = "done"]
    /\ loopReady' = Append(loopReady, [kind |-> "reset_start", i |-> i])
    /\ UNCHANGED <<barge_in_active, nPartials, bsched, bStartResp, cancelInvoked,
                   stopAudioSent, lostFinals, cancelChars, cancelRaised, stopAudioFailed, bwake>>
    /\ UNCHANGED <<timers, now>>
    /\ UNCHANGED <<queueVars, lifeVars, routerVars>>
    /\ UNCHANGED nonTurnVars

\* the deadline of `await asyncio.sleep(0.1)` started at time t
ResetDeadline(t) == t + BargeResetTicks

\* _reset_barge_in_state starts: the sleep timer is armed
ResetStart ==
    /\ loopReady # <<>>
    /\ Head(loopReady).kind = "reset_start"
    /\ loopReady' = Tail(loopReady)
    /\ timers' = timers \cup {[i |-> Head(loopReady).i, deadline |-> ResetDeadline(now)]}
    /\ UNCHANGED now
    /\ UNCHANGED <<queueVars, lifeVars, routerVars, bargeVars>>
    /\ UNCHANGED nonTurnVars

\* the event loop moves a due timer to its ready queue
TimerExpire ==
    /\ \E t \in timers :
        /\ t.deadline <= now
        /\ timers' = timers \ {t}
        /\ loopReady' = Append(loopReady, [kind |-> "reset_wake", i |-> t.i])
    /\ UNCHANGED now
    /\ UNCHANGED <<queueVars, lifeVars, routerVars, bargeVars>>
    /\ UNCHANGED nonTurnVars

\* a reset that leaves the flag as it is
FlagLeftSet == TRUE

\* _reset_barge_in_state: `self.barge_in_active.clear()`
FlagAfterReset == FALSE

\* _reset_barge_in_state after the sleep: self.barge_in_active.clear()
ResetWake ==
    /\ loopReady # <<>>
    /\ Head(loopReady).kind = "reset_wake"
    /\ loopReady' = Tail(loopReady)
    /\ barge_in_active' = FlagAfterReset
    /\ UNCHANGED <<nPartials, bpc, bsched, bStartResp, cancelInvoked, stopAudioSent, lostFinals,
                   cancelChars, cancelRaised, stopAudioFailed, bwake>>
    /\ UNCHANGED <<timers, now>>
    /\ UNCHANGED <<queueVars, lifeVars, routerVars>>
    /\ UNCHANGED nonTurnVars

\* time passes while a sleep is pending
Tick ==
    /\ \E t \in timers : t.deadline > now
    /\ now' = now + 1
    /\ UNCHANGED <<loopReady, timers>>
    /\ UNCHANGED <<queueVars, lifeVars, routerVars, bargeVars>>
    /\ UNCHANGED nonTurnVars

\* time passes with no sleep pending
FreeTick ==
    /\ now < MaxTime
    /\ \A t \in timers : t.deadline <= now
    /\ now' = now + 1
    /\ UNCHANGED <<loopReady, timers>>
    /\ UNCHANGED <<queueVars, lifeVars, routerVars, bargeVars>>
    /\ UNCHANGED nonTurnVars

\* -------------------------------------------------- ACSMediaHandler.stop
\* a stop that runs its body whatever _stopped says
GuardIgnored == FALSE

\* ACSMediaHandler.stop: `if self._stopped: return`
HandlerAlreadyStopped == handler_stopped

\* SpeechSDKThread.stop: nothing when _stopped is set; else recognizer.stop() (its
\* error is logged) and the join of the thread
SpeechSdkStopSteps ==
    IF recognizer_stopped THEN <<>> ELSE <<"recognizer.stop", "thread_obj.join">>

\* stop() is called on a handler not yet stopped, and runs up to the first
\* suspension: the _stopped guards, the running flags, and RouteTurnThread.stop's
\* call of cancel_current_processing
StopBegin ==
    /\ routerPc # "not_started"
    /\ ~HandlerAlreadyStopped
    /\ stopPc \in {"idle", "done"}
    /\ stopCalls < MaxStopCalls
    /\ stopCalls' = stopCalls + 1
    /\ handler_stopped' = TRUE
    /\ handler_running' = FALSE
    /\ IF rt_stopped
       THEN \* RouteTurnThread.stop returns at once
            /\ stopPc' = "sdk"
            /\ UNCHANGED <<rt_stopped, rt_running, stopLog, queueVars, respTask>>
       ELSE /\ rt_stopped' = TRUE
            /\ rt_running' = FALSE
            /\ CancelCurrentProcessingSync
            /\ stopLog' = Append(stopLog, "cancel_current_processing")
            /\ stopPc' = IF ResponseTaskCancellable THEN "await_task" ELSE "cancel_loop"
    /\ UNCHANGED recognizer_stopped
    /\ UNCHANGED <<routerPc, current_response_task, orchRunning, llmInvocations,
                   playbacks, turnErrors>>
    /\ UNCHANGED <<bargeVars, loopVars>>
    /\ UNCHANGED nonTurnVars

\* stop() is called again, after or during a stop: it returns at the guard
StopAgain ==
    /\ HandlerAlreadyStopped
    /\ stopCalls < MaxStopCalls
    /\ stopCalls' = stopCalls + 1
    /\ UNCHANGED <<handler_running, handler_stopped, stopPc, recognizer_stopped,
                   rt_stopped, stopLog>>
    /\ UNCHANGED <<queueVars, routerVars, bargeVars, loopVars>>
    /\ UNCHANGED nonTurnVars

\* cancel_current_processing resumes once the cancelled task is done
StopAfterTask ==
    /\ stopPc = "await_task"
    /\ TaskDone(respTask)
    /\ stopPc' = "cancel_loop"
    /\ UNCHANGED <<handler_running, handler_stopped, recognizer_stopped, rt_stopped,
                   stopCalls, stopLog>>
    /\ UNCHANGED <<queueVars, routerVars, bargeVars, loopVars>>
    /\ UNCHANGED nonTurnVars

\* RouteTurnThread.stop: processing_task.cancel() and its await; the cancellation
\* reaches whatever the loop is awaiting (the orchestrator call, the playback task)
StopCancelLoop ==
    /\ stopPc = "cancel_loop"
    /\ stopPc' = "sdk"
    /\ stopLog' = Append(stopLog, "processing_task.cancel")
    /\ routerPc' = "exited"
    /\ orchRunning' = 0
    /\ current_response_task' = IF routerPc = "play" THEN 0 ELSE current_response_task
    /\ respTask' = IF routerPc = "play" /\ ~TaskDone(respTask)
                   THEN [respTask EXCEPT !.state = "cancelled"]
                   ELSE respTask
    /\ bwake' = IF routerPc = "play" /\ ~TaskDone(respTask) THEN Woken("cancelled") ELSE bwake
    /\ UNCHANGED <<handler_running, handler_stopped, recognizer_stopped, rt_stopped,
                   stopCalls>>
    /\ UNCHANGED <<rt_running, llmInvocations, playbacks, turnErrors>>
    /\ UNCHANGED <<barge_in_active, nPartials, bpc, bsched, bStartResp, cancelInvoked,
                   stopAudioSent, lostFinals, cancelChars, cancelRaised, stopAudioFailed>>
    /\ UNCHANGED <<queueVars, loopVars>>
    /\ UNCHANGED nonTurnVars

\* an exception comes out of `await self.route_turn_thread.stop()`, which lets
\* through every error of its awaits but CancelledError (and, inside
\* cancel_current_processing, Exception): control leaves the one try block of
\* ACSMediaHandler.stop
StopRouterRaises ==
    /\ stopPc \in {"await_task", "cancel_loop"}
    /\ stopPc' = "done"
    /\ stopLog' = Append(stopLog, "route_turn_thread.stop raised")
    /\ UNCHANGED <<handler_running, handler_stopped, recognizer_stopped, rt_stopped,
                   stopCalls>>
    /\ UNCHANGED <<queueVars, routerVars, bargeVars, loopVars>>
    /\ UNCHANGED nonTurnVars

\* SpeechSDKThread.stop, then MainEventLoop._cancel_current_playback (nothing to cancel)
StopSpeechSdk ==
    /\ stopPc = "sdk"
    /\ stopPc' = "done"
    /\ stopLog' = stopLog \o SpeechSdkStopSteps \o <<"_cancel_current_playback">>
    /\ recognizer_stopped' = TRUE
    /\ UNCHANGED <<handler_running, handler_stopped, rt_stopped, stopCalls>>
    /\ UNCHANGED <<queueVars, routerVars, bargeVars, loopVars>>
    /\ UNCHANGED nonTurnVars

\* SpeechSDKThread.stop is called on its own
SpeechSdkStop ==
    /\ routerPc # "not_started"
    /\ stopCalls < MaxStopCalls
    /\ stopCalls' = stopCalls + 1
    /\ stopLog' = stopLog \o SpeechSdkStopSteps
    /\ recognizer_stopped' = TRUE
    /\ UNCHANGED <<handler_running, handler_stopped, stopPc, rt_stopped>>
    /\ UNCHANGED <<queueVars, routerVars, bargeVars, loopVars>>
    /\ UNCHANGED nonTurnVars

\* ------------------------------------- MainEventLoop: gate and greeting
\* _play_greeting: `if self.greeting_played: return`
GreetingAlreadyPlayed == greeting_played

\* a _play_greeting that queues the greeting and leaves the flag as it was
FlagLeftAsItWas == greeting_played

\* _play_greeting: `self.greeting_played = True` after the event is queued
FlagAfterQueueing == TRUE

\* _play_greeting(acs_handler) with the handler present: without greeting text the
\* flag alone is set; else a GREETING event is queued and the flag set
PlayGreeting ==
    IF GreetingAlreadyPlayed
    THEN UNCHANGED <<greeting_played, queueVars>>
    ELSE IF ~greeting_text
    THEN greeting_played' = TRUE /\ UNCHANGED queueVars
    ELSE queue_speech_result("greeting") /\ greeting_played' = FlagAfterQueueing

\* the callers' `if not self.greeting_played: await self._play_greeting(...)`
PlayGreetingIfNotPlayed ==
    IF ~greeting_played THEN PlayGreeting ELSE UNCHANGED <<greeting_played, queueVars>>

\* `not self._validation_task or self._validation_task.done()`
NoWaiterPending == validation_task \in {"none", "done"}

\* handle_media_message, kind AudioMetadata: the recognizer is started; with
\* validation on a waiter task is created unless one is pending; with validation
\* off the gate is opened and the greeting played
HandleAudioMetadata ==
    /\ handler_running
    /\ nMetadata < MaxMetadata
    /\ nMetadata' = nMetadata + 1
    /\ recognizer_starts' = recognizer_starts + 1
    /\ IF dtmf_validation_enabled
       THEN /\ validation_task' = IF NoWaiterPending THEN "waiting" ELSE validation_task
            /\ UNCHANGED <<validation_gate_open, greeting_played, queueVars>>
       ELSE /\ validation_gate_open' = TRUE
            /\ PlayGreetingIfNotPlayed
            /\ UNCHANGED validation_task
    /\ UNCHANGED <<validation_log_once, waiterResults>>
    /\ UNCHANGED <<gateConfig, audioVars>>
    /\ UNCHANGED <<lifeVars, routerVars, bargeVars, loopVars>>
    /\ UNCHANGED nonCallVars

\* _await_validation_and_open_gate: wait_for_dtmf_validation_completion returned
\* True; the gate is opened and the greeting played
ValidationCompletes ==
    /\ validation_task = "waiting"
    /\ validation_task' = "done"
    /\ waiterResults' = Append(waiterResults, "completed")
    /\ validation_gate_open' = TRUE
    /\ PlayGreetingIfNotPlayed
    /\ UNCHANGED <<validation_log_once, recognizer_starts, nMetadata>>
    /\ UNCHANGED <<gateConfig, audioVars>>
    /\ UNCHANGED <<lifeVars, routerVars, bargeVars, loopVars>>
    /\ UNCHANGED nonCallVars

\* _await_validation_and_open_gate: the wait returned False after timeout_ms=30_000;
\* a warning is logged
ValidationTimesOut ==
    /\ validation_task = "waiting"
    /\ validation_task' = "done"
    /\ waiterResults' = Append(waiterResults, "timeout")
    /\ UNCHANGED <<validation_gate_open, validation_log_once, greeting_played,
                   recognizer_starts, nMetadata>>
    /\ UNCHANGED <<gateConfig, audioVars>>
    /\ UNCHANGED turnVars
    /\ UNCHANGED nonCallVars

\* _await_validation_and_open_gate: the wait raised; the error is logged
ValidationRaises ==
    /\ validation_task = "waiting"
    /\ validation_task' = "done"
    /\ waiterResults' = Append(waiterResults, "error")
    /\ UNCHANGED <<validation_gate_open, validation_log_once, greeting_played,
                   recognizer_starts, nMetadata>>
    /\ UNCHANGED <<gateConfig, audioVars>>
    /\ UNCHANGED turnVars
    /\ UNCHANGED nonCallVars

\* ------------------------------------- MainEventLoop: audio backpressure
\* a buffer that refuses a frame while it has room for one
OverflowFullEarly == overflow >= AudioOverflowMaxsize - 1

\* audio_overflow_buffer.put_nowait raises QueueFull
OverflowFull == overflow >= AudioOverflowMaxsize

\* put_nowait(audio_bytes) into the overflow buffer; on QueueFull the frame is
\* dropped and counted
PutOrDrop ==
    IF OverflowFull
    THEN /\ dropped_frames_count' = dropped_frames_count + 1
         /\ dropLog' = Append(dropLog, [free |-> sem_value, buffered |-> overflow])
         /\ UNCHANGED overflow
    ELSE /\ overflow' = overflow + 1
         /\ UNCHANGED <<dropped_frames_count, dropLog>>

\* _process_audio_with_backpressure is entered: with a free slot the semaphore is
\* acquired at once and the write begins; else the call waits for a slot
ProcessAudioWithBackpressure ==
    /\ IF sem_value > 0
       THEN /\ sem_value' = sem_value - 1
            /\ nWriting' = nWriting + 1
            /\ UNCHANGED nAcquiring
       ELSE /\ nAcquiring' = nAcquiring + 1
            /\ UNCHANGED <<sem_value, nWriting>>
    /\ UNCHANGED <<overflow, drainPc, processed_frames_count, dropped_frames_count,
                   written, dropLog>>

\* the gate, the turn and everything outside the audio path
nonAudioPathVars == <<turnVars, gateVars, discards, restVars>>

\* a waiting call gets the slot another one released
AcquireGranted ==
    /\ nAcquiring > 0 /\ sem_value > 0
    /\ nAcquiring' = nAcquiring - 1
    /\ sem_value' = sem_value - 1
    /\ nWriting' = nWriting + 1
    /\ UNCHANGED <<overflow, drainPc, processed_frames_count, dropped_frames_count,
                   written, dropLog>>
    /\ UNCHANGED nonAudioPathVars

\* a waiting call's wait_for(acquire(), 0.005) times out: the frame goes to the
\* overflow buffer, and the drain task is created unless one is running
AcquireTimesOut ==
    /\ nAcquiring > 0 /\ sem_value = 0
    /\ nAcquiring' = nAcquiring - 1
    /\ PutOrDrop
    /\ drainPc' = IF ~OverflowFull /\ drainPc \in {"none", "done"} THEN "loop" ELSE drainPc
    /\ UNCHANGED <<sem_value, nWriting, processed_frames_count, written>>
    /\ UNCHANGED nonAudioPathVars

\* _process_audio_chunk_async returns and the slot is released: write_bytes took the
\* frame, or the write timed out after 50 ms or raised, which the function logs;
\* `self.processed_frames_count += 1` follows in each case
AudioChunkReturns(wrote) ==
    /\ nWriting > 0
    /\ nWriting' = nWriting - 1
    /\ written' = IF wrote THEN written + 1 ELSE written
    /\ processed_frames_count' = processed_frames_count + 1
    /\ sem_value' = sem_value + 1
    /\ UNCHANGED <<overflow, nAcquiring, drainPc, dropped_frames_count, dropLog>>
    /\ UNCHANGED nonAudioPathVars

\* _drain_overflow_buffer, the top of its loop: with the buffer empty the task
\* ends; else it takes a frame and acquires a slot or waits for one
DrainTakes ==
    /\ drainPc = "loop"
    /\ IF overflow = 0
       THEN /\ drainPc' = "done"
            /\ UNCHANGED <<overflow, sem_value>>
       ELSE /\ overflow' = overflow - 1
            /\ IF sem_value > 0
               THEN sem_value' = sem_value - 1 /\ drainPc' = "writing"
               ELSE UNCHANGED sem_value /\ drainPc' = "acquiring"
    /\ UNCHANGED <<nAcquiring, nWriting, processed_frames_count, dropped_frames_count,
                   written, dropLog>>
    /\ UNCHANGED nonAudioPathVars

\* the drain task gets a slot
DrainAcquireGranted ==
    /\ drainPc = "acquiring" /\ sem_value > 0
    /\ sem_value' = sem_value - 1
    /\ drainPc' = "writing"
    /\ UNCHANGED <<overflow, nAcquiring, nWriting, processed_frames_count,
                   dropped_frames_count, written, dropLog>>
    /\ UNCHANGED nonAudioPathVars

\* the drain task's wait_for(acquire(), 0.010) times out: the frame is put back,
\* or dropped when the buffer has filled meanwhile, and the task returns
DrainAcquireTimesOut ==
    /\ drainPc = "acquiring" /\ sem_value = 0
    /\ PutOrDrop
    /\ drainPc' = "done"
    /\ UNCHANGED <<sem_value, nAcquiring, nWriting, processed_frames_count, written>>
    /\ UNCHANGED nonAudioPathVars

\* _process_audio_chunk_async returns in the drain task
DrainChunkReturns(wrote) ==
    /\ drainPc = "writing"
    /\ drainPc' = "loop"
    /\ written' = IF wrote THEN written + 1 ELSE written
    /\ processed_frames_count' = processed_frames_count + 1
    /\ sem_value' = sem_value + 1
    /\ UNCHANGED <<overflow, nAcquiring, nWriting, dropped_frames_count, dropLog>>
    /\ UNCHANGED nonAudioPathVars

\* ------------------------------------- MainEventLoop: frames of no effect
\* what a frame can be that is neither AudioMetadata nor AudioData: text that is
\* not JSON, JSON that is not an object, a DtmfData frame, a frame of another kind
BadFrames == {"invalid_json", "not_an_object", "DtmfData", "unknown_kind"}

\* a handler that lets the error out: the endpoint's loop ends and stops the handler
ErrorEndsLoop == /\ handler_running' = FALSE
                 /\ UNCHANGED <<handler_stopped, stopPc, recognizer_stopped, rt_stopped,
                                stopCalls, stopLog>>

\* json.JSONDecodeError and every other Exception are caught and logged; DtmfData
\* and unknown kinds are logged
ErrorLogged == UNCHANGED lifeVars

\* handle_media_message for such a frame
HandleBadFrame ==
    /\ handler_running
    /\ discards.n < MaxBadFrames
    /\ \E frame \in BadFrames :
        discards' = [n |-> discards.n + 1, after |-> nAudio + nMetadata]
    /\ ErrorLogged
    /\ UNCHANGED <<queueVars, routerVars, bargeVars, loopVars>>
    /\ UNCHANGED <<gateVars, bpVars, restVars>>

\* a gate check that lets every frame through
GateNeverBlocks == FALSE

\* handle_media_message: `DTMF_VALIDATION_ENABLED and not self._validation_gate_open`
GateBlocks == dtmf_validation_enabled /\ ~validation_gate_open

\* handle_media_message, kind AudioData: behind a closed gate the frame is dropped
\* and the info log emitted once; else a frame that is not silent goes to
\* _process_audio_with_backpressure
HandleAudioData(silent) ==
    /\ handler_running
    /\ nAudio < MaxAudio
    /\ nAudio' = nAudio + 1
    /\ framesWhileClosed' = IF dtmf_validation_enabled /\ ~validation_gate_open
                            THEN framesWhileClosed + 1 ELSE framesWhileClosed
    /\ IF GateBlocks
       THEN /\ closedGateLogs' = IF ~validation_log_once THEN closedGateLogs + 1
                                 ELSE closedGateLogs
            /\ validation_log_once' = TRUE
            /\ UNCHANGED <<forwarded, forwardedWhileClosed>>
            /\ UNCHANGED bpVars
       ELSE /\ forwarded' = IF ~silent THEN forwarded + 1 ELSE forwarded
            /\ forwardedWhileClosed' =
                   IF ~silent /\ dtmf_validation_enabled /\ ~validation_gate_open
                   THEN forwardedWhileClosed + 1 ELSE forwardedWhileClosed
            /\ UNCHANGED <<validation_log_once, closedGateLogs>>
            /\ IF ~silent THEN ProcessAudioWithBackpressure ELSE UNCHANGED bpVars
    /\ nNonSilent' = IF ~silent THEN nNonSilent + 1 ELSE nNonSilent
    /\ UNCHANGED <<validation_gate_open, greeting_played, validation_task, waiterResults,
                   recognizer_starts, nMetadata>>
    /\ UNCHANGED gateConfig
    /\ UNCHANGED turnVars
    /\ UNCHANGED <<restVars, discards>>

\* ------------------------------------------------------------- SpecGate
NextGate ==
    \/ HandlerStart
    \/ HandleAudioMetadata
    \/ ValidationCompletes
    \/ ValidationTimesOut
    \/ ValidationRaises
    \/ (\E silent \in BOOLEAN : HandleAudioData(silent))
    \/ HandleBadFrame
    \/ AcquireGranted
    \/ AcquireTimesOut
    \/ (\E wrote \in BOOLEAN : AudioChunkReturns(wrote))
    \/ DrainTakes
    \/ DrainAcquireGranted
    \/ DrainAcquireTimesOut
    \/ (\E wrote \in BOOLEAN : DrainChunkReturns(wrote))

SpecGate == InitGate /\ [][NextGate]_vars

\* ------------------------------------ endpoints/media.py: the registry
\* connection c creates handler c
\* ACSMediaHandler.stop up to its first suspension: `_stopped = True; running = False`
StopFlags(h) ==
    /\ h_stopped' = [h_stopped EXCEPT ![h] = TRUE]
    /\ h_running' = [h_running EXCEPT ![h] = FALSE]

\* what a call of handler.stop() does first: nothing when _stopped is set, else
\* route_turn_thread.stop()
StopSteps(h) == IF h_stopped[h] THEN <<>> ELSE <<"route_turn_thread.stop">>

\* ACSMediaHandler.stop has run to its end: router, recognizer and playback stopped
StopDone == -1

\* the handlers with is_running true
RunningHandlers == {h \in 1..MaxConnections : h_running[h]}

\* AsyncPool.acquire of both pools: an instance each, or the caller waits
AcquireBoth(c) ==
    /\ stt_pool > 0
    /\ tts_pool > 0
    /\ stt_pool' = stt_pool - 1
    /\ tts_pool' = tts_pool - 1
    /\ stt_held' = [stt_held EXCEPT ![c] = TRUE]
    /\ tts_held' = [tts_held EXCEPT ![c] = TRUE]
    /\ \E r \in stt_free :
        /\ stt_free' = stt_free \ {r}
        /\ recognizer_of' = [recognizer_of EXCEPT ![c] = r]

\* _create_media_handler from the removal of the old entry on: the pools hand out
\* ready instances, the handler is constructed and registered, and the endpoint's
\* `await handler.start()` sets running before it first suspends
InstallAndStart(c, found) ==
    /\ AcquireBoth(c)
    /\ active_handlers' = c
    /\ h_running' = [h_running EXCEPT ![c] = TRUE]
    /\ installLog' = Append(installLog, [handler |-> c, found |-> found,
                                         running |-> RunningHandlers])
    /\ connPc' = [connPc EXCEPT ![c] = "serving"]

\* _create_media_handler, first part: no entry, or an entry that is not running
\* (removed), or a running one, whose stop() is awaited
CreateMediaHandler(c) ==
    /\ connPc[c] = "new"
    /\ IF active_handlers # 0 /\ h_running[active_handlers]
       THEN /\ existing_handler' = [existing_handler EXCEPT ![c] = active_handlers]
            /\ teardown' = [teardown EXCEPT ![active_handlers] = @ \o StopSteps(active_handlers)]
            /\ StopFlags(active_handlers)
            /\ connPc' = [connPc EXCEPT ![c] = "stopping_existing"]
            /\ stopRun' = [stopRun EXCEPT ![active_handlers] = c]
            /\ UNCHANGED <<active_handlers, installLog, poolVars>>
       ELSE /\ existing_handler' = [existing_handler EXCEPT ![c] = active_handlers]
            /\ InstallAndStart(c, active_handlers)
            /\ UNCHANGED <<h_stopped, teardown, stopRun>>
    /\ UNCHANGED cleanupRemoved
    /\ UNCHANGED nonRegistryVars

\* _create_media_handler resumes from `await existing_handler.stop()`:
\* `del _active_handlers[call_connection_id]` raises KeyError when the entry is
\* gone, and the endpoint goes to its cleanup with handler None
CreateAfterStop(c) ==
    /\ connPc[c] = "stopping_existing"
    /\ IF active_handlers = 0
       THEN /\ connPc' = [connPc EXCEPT ![c] = "failed"]
            /\ UNCHANGED <<active_handlers, h_running, installLog, poolVars>>
       ELSE InstallAndStart(c, existing_handler[c])
    /\ stopRun' = [stopRun EXCEPT ![existing_handler[c]] = StopDone]
    /\ UNCHANGED <<h_stopped, existing_handler, teardown, cleanupRemoved>>
    /\ UNCHANGED nonRegistryVars

\* the WebSocket closes: _cleanup_websocket_resources stops the connection's
\* recognizer and releases it to the STT pool, then calls handler.stop(), which
\* returns at once when _stopped is set and else suspends
CleanupBegin(c) ==
    /\ connPc[c] = "serving"
    /\ connPc' = [connPc EXCEPT ![c] = "stopping_own"]
    /\ stt_pool' = stt_pool + 1
    /\ stt_held' = [stt_held EXCEPT ![c] = FALSE]
    /\ stt_free' = stt_free \cup {recognizer_of[c]}
    /\ stopRun' = IF h_stopped[c] THEN stopRun ELSE [stopRun EXCEPT ![c] = c]
    /\ teardown' = [teardown EXCEPT ![c] =
                        @ \o <<"stt_client.stop", "stt_pool.release">> \o StopSteps(c)]
    /\ IF h_stopped[c] THEN UNCHANGED <<h_stopped, h_running>> ELSE StopFlags(c)
    /\ UNCHANGED <<active_handlers, existing_handler, installLog, tts_pool, tts_held,
                   cleanupRemoved, recognizer_of>>
    /\ UNCHANGED nonRegistryVars

\* _cleanup_websocket_resources after handler.stop(): the entry of the call is
\* removed when there is one
CleanupFinish(c) ==
    /\ connPc[c] = "stopping_own"
    /\ connPc' = [connPc EXCEPT ![c] = "closed"]
    /\ active_handlers' = 0
    /\ cleanupRemoved' = IF active_handlers # 0
                         THEN cleanupRemoved \cup {[by |-> c, removed |-> active_handlers]}
                         ELSE cleanupRemoved
    /\ stopRun' = IF stopRun[c] = c THEN [stopRun EXCEPT ![c] = StopDone] ELSE stopRun
    /\ UNCHANGED <<h_running, h_stopped, existing_handler, installLog, poolVars, teardown>>
    /\ UNCHANGED nonRegistryVars

\* --------------------------------------------------------- SpecRegistry
NextRegistry ==
    \/ (\E c \in 1..MaxConnections : CreateMediaHandler(c))
    \/ (\E c \in 1..MaxConnections : CreateAfterStop(c))
    \/ (\E c \in 1..MaxConnections : CleanupBegin(c))
    \/ (\E c \in 1..MaxConnections : CleanupFinish(c))

SpecRegistry == Init /\ [][NextRegistry]_vars

\* ------------------------- src/handlers/acs_media_handler.py (queue-based)
GreetingTask == 1

\* the playback task route_turn_loop creates for final k
TaskOf(k) == k + 1

\* asyncio.Task.done()
Finished(t) == tasks[t] \in {"done", "skipped", "cancelled"}

\* `self.playback_task and not self.playback_task.done()`
PlaybackCancellable == playback_task # 0 /\ ~Finished(playback_task)

\* Task.cancel(): the task gets CancelledError at its next step
Cancel(t) == [tasks EXCEPT ![t] = "cancelling"]

\* the response chains at work: send_response_to_acs streaming the greeting's
\* frames, or route_turn running the orchestrator
ActiveChains == {t \in 1..(MaxEvents + 1) : tasks[t] = "running"}

\* the first AudioMetadata: start_recognizer creates the route_turn_loop task and
\* play_greeting the greeting's playback task
LegacyStartRecognizer ==
    /\ ~recognizer_started
    /\ recognizer_started' = TRUE
    /\ routePc' = "get"
    /\ tasks' = [tasks EXCEPT ![GreetingTask] = "created"]
    /\ playback_task' = GreetingTask
    /\ UNCHANGED <<route_turn_queue, barge_in_event, scheduled, bargePc, awaited, turn,
                   nFinals, nBargeIns>>
    /\ UNCHANGED nonLegacyVars

\* a created task takes its first step: send_response_to_acs starts to stream;
\* route_and_playback returns at once when _barge_in_event is set ("skipped": the
\* task is done and route_turn was not called), else awaits route_turn
LegacyTaskStarts(t) ==
    /\ tasks[t] = "created"
    /\ tasks' = [tasks EXCEPT ![t] = IF t # GreetingTask /\ barge_in_event
                                     THEN "skipped" ELSE "running"]
    /\ UNCHANGED <<recognizer_started, playback_task, route_turn_queue, barge_in_event,
                   scheduled, bargePc, awaited, routePc, turn, nFinals, nBargeIns>>
    /\ UNCHANGED nonLegacyVars

\* the last frame is sent, or route_turn returns
LegacyTaskEnds(t) ==
    /\ tasks[t] = "running"
    /\ tasks' = [tasks EXCEPT ![t] = "done"]
    /\ UNCHANGED <<recognizer_started, playback_task, route_turn_queue, barge_in_event,
                   scheduled, bargePc, awaited, routePc, turn, nFinals, nBargeIns>>
    /\ UNCHANGED nonLegacyVars

\* a cancelled task receives CancelledError
LegacyTaskCancelled(t) ==
    /\ tasks[t] = "cancelling"
    /\ tasks' = [tasks EXCEPT ![t] = "cancelled"]
    /\ UNCHANGED <<recognizer_started, playback_task, route_turn_queue, barge_in_event,
                   scheduled, bargePc, awaited, routePc, turn, nFinals, nBargeIns>>
    /\ UNCHANGED nonLegacyVars

\* on_partial (SDK thread): nothing when the flag is set; else the flag is set and
\* _handle_barge_in_async scheduled on the main loop
LegacyOnPartial ==
    /\ recognizer_started
    /\ nBargeIns < MaxPartials
    /\ ~barge_in_event
    /\ barge_in_event' = TRUE
    /\ nBargeIns' = nBargeIns + 1
    /\ bargePc' = [bargePc EXCEPT ![nBargeIns + 1] = "scheduled"]
    /\ scheduled' = Append(scheduled, [kind |-> "barge_in", id |-> nBargeIns + 1])
    /\ UNCHANGED <<recognizer_started, playback_task, route_turn_queue, tasks, awaited,
                   routePc, turn, nFinals>>
    /\ UNCHANGED nonLegacyVars

\* on_final (SDK thread): the flag is cleared and _handle_final_async scheduled
LegacyOnFinal ==
    /\ recognizer_started
    /\ nFinals < MaxEvents
    /\ barge_in_event' = FALSE
    /\ nFinals' = nFinals + 1
    /\ scheduled' = Append(scheduled, [kind |-> "final", id |-> nFinals + 1])
    /\ UNCHANGED <<recognizer_started, playback_task, route_turn_queue, tasks, bargePc,
                   awaited, routePc, turn, nBargeIns>>
    /\ UNCHANGED nonLegacyVars

\* _handle_final_async: the final is put on route_turn_queue and
\* `self.playback_task = None`
HandleFinalAsync ==
    /\ scheduled # <<>>
    /\ Head(scheduled).kind = "final"
    /\ scheduled' = Tail(scheduled)
    /\ route_turn_queue' = Append(route_turn_queue, Head(scheduled).id)
    /\ playback_task' = 0
    /\ UNCHANGED <<recognizer_started, barge_in_event, tasks, bargePc, awaited, routePc,
                   turn, nFinals, nBargeIns>>
    /\ UNCHANGED nonLegacyVars

\* _handle_barge_in_async starts: `await broadcast_message(...)`
HandleBargeInAsync ==
    /\ scheduled # <<>>
    /\ Head(scheduled).kind = "barge_in"
    /\ scheduled' = Tail(scheduled)
    /\ bargePc' = [bargePc EXCEPT ![Head(scheduled).id] = "broadcast"]
    /\ UNCHANGED <<recognizer_started, playback_task, route_turn_queue, barge_in_event,
                   tasks, awaited, routePc, turn, nFinals, nBargeIns>>
    /\ UNCHANGED nonLegacyVars

\* _handle_barge_in_async after the broadcast: the playback task, when there is one
\* running, is cancelled and awaited; else StopAudio is sent
LegacyBargeInCancels(i) ==
    /\ bargePc[i] = "broadcast"
    /\ IF PlaybackCancellable
       THEN /\ tasks' = Cancel(playback_task)
            /\ awaited' = [awaited EXCEPT ![i] = playback_task]
            /\ bargePc' = [bargePc EXCEPT ![i] = "await_task"]
       ELSE /\ bargePc' = [bargePc EXCEPT ![i] = "done"]
            /\ UNCHANGED <<tasks, awaited>>
    /\ UNCHANGED <<recognizer_started, playback_task, route_turn_queue, barge_in_event,
                   scheduled, routePc, turn, nFinals, nBargeIns>>
    /\ UNCHANGED nonLegacyVars

\* _handle_barge_in_async resumes from `await self.playback_task`; StopAudio is sent
LegacyBargeInEnds(i) ==
    /\ bargePc[i] = "await_task"
    /\ Finished(awaited[i])
    /\ bargePc' = [bargePc EXCEPT ![i] = "done"]
    /\ UNCHANGED <<recognizer_started, playback_task, route_turn_queue, barge_in_event,
                   tasks, scheduled, awaited, routePc, turn, nFinals, nBargeIns>>
    /\ UNCHANGED nonLegacyVars

\* route_turn_loop: the get returns; `await broadcast_message(...)`
RouteTurnGet ==
    /\ routePc = "get"
    /\ route_turn_queue # <<>>
    /\ turn' = Head(route_turn_queue)
    /\ route_turn_queue' = Tail(route_turn_queue)
    /\ routePc' = "broadcast"
    /\ UNCHANGED <<recognizer_started, playback_task, barge_in_event, tasks, scheduled,
                   bargePc, awaited, nFinals, nBargeIns>>
    /\ UNCHANGED nonLegacyVars

\* route_turn_loop: `self.playback_task = asyncio.create_task(route_and_playback(...))`
StartNewPlayback ==
    /\ tasks' = [tasks EXCEPT ![TaskOf(turn)] = "created"]
    /\ playback_task' = TaskOf(turn)
    /\ routePc' = "get"

\* route_turn_loop after the broadcast: "cancel any current playback before
\* starting new one", then the new playback task
RouteTurnCancelPrevious ==
    /\ routePc = "broadcast"
    /\ IF PlaybackCancellable
       THEN /\ tasks' = Cancel(playback_task)
            /\ awaited' = [awaited EXCEPT ![0] = playback_task]
            /\ routePc' = "await_task"
            /\ UNCHANGED playback_task
       ELSE /\ StartNewPlayback
            /\ UNCHANGED awaited
    /\ UNCHANGED <<recognizer_started, route_turn_queue, barge_in_event, scheduled,
                   bargePc, turn, nFinals, nBargeIns>>
    /\ UNCHANGED nonLegacyVars

\* route_turn_loop resumes from `await self.playback_task`
RouteTurnAfterCancel ==
    /\ routePc = "await_task"
    /\ Finished(awaited[0])
    /\ StartNewPlayback
    /\ UNCHANGED <<recognizer_started, route_turn_queue, barge_in_event, scheduled,
                   bargePc, awaited, turn, nFinals, nBargeIns>>
    /\ UNCHANGED nonLegacyVars

\* ----------------------------------------------------------- SpecLegacy
NextLegacy ==
    \/ LegacyStartRecognizer
    \/ (\E t \in 1..(MaxEvents + 1) : LegacyTaskStarts(t))
    \/ (\E t \in 1..(MaxEvents + 1) : LegacyTaskEnds(t))
    \/ (\E t \in 1..(MaxEvents + 1) : LegacyTaskCancelled(t))
    \/ LegacyOnPartial
    \/ LegacyOnFinal
    \/ HandleFinalAsync
    \/ HandleBargeInAsync
    \/ (\E i \in 1..MaxPartials : LegacyBargeInCancels(i))
    \/ (\E i \in 1..MaxPartials : LegacyBargeInEnds(i))
    \/ RouteTurnGet
    \/ RouteTurnCancelPrevious
    \/ RouteTurnAfterCancel

SpecLegacy == Init /\ [][NextLegacy]_vars

Min(a, b) == IF a < b THEN a ELSE b

\* ------------------------------- gpt_flow.py: _openai_stream_with_retry
\* the retry-after header of a failed attempt: absent, or a number of seconds
RetryAfterHeaders ==
    {[present |-> FALSE, seconds |-> 0]}
        \cup {[present |-> TRUE, seconds |-> r] : r \in (-1)..MaxRetryAfter}

\* a loop that allows one attempt more
ExhaustedLate(n) == n > AOAI_RETRY_MAX_ATTEMPTS

\* `attempts >= AOAI_RETRY_MAX_ATTEMPTS`
Exhausted(n) == n >= AOAI_RETRY_MAX_ATTEMPTS

\* _compute_delay before the jitter: Retry-After when present and not negative,
\* else exponential backoff; then the cap
BaseDelay(info, n) ==
    LET base == IF info.present /\ info.seconds >= 0
                THEN 10 * info.seconds
                ELSE AOAI_RETRY_BASE_DELAY_SEC * (AOAI_RETRY_BACKOFF_FACTOR ^ (n - 1))
    IN  Min(base, AOAI_RETRY_MAX_DELAY_SEC)

\* _compute_delay: base + random.uniform(0, AOAI_RETRY_JITTER_SEC)
ComputeDelays(info, n) == {BaseDelay(info, n) + j : j \in 0..AOAI_RETRY_JITTER_SEC}

\* one turn of `while True`: attempts += 1 and the request; it returns the stream,
\* or fails: the error is re-raised when _should_retry says no or the attempts are
\* used up, and else the loop sleeps
OpenaiStreamAttempt ==
    /\ retryPc = "loop"
    /\ attempts' = attempts + 1
    /\ \E kind \in {"ok", "retryable", "fatal"} :
        /\ outcomes' = Append(outcomes, kind)
        /\ IF kind = "ok"
           THEN retryPc' = "returned" /\ UNCHANGED delays
           ELSE IF kind = "fatal" \/ Exhausted(attempts')
           THEN retryPc' = "raised" /\ UNCHANGED delays
           ELSE /\ retryPc' = "sleeping"
                /\ \E info \in RetryAfterHeaders : \E d \in ComputeDelays(info, attempts') :
                    delays' = Append(delays, [delay |-> d, info |-> info])
    /\ UNCHANGED <<exc, should_retry, classified>>
    /\ UNCHANGED <<respVars, nonFlowVars>>

\* `await asyncio.sleep(delay)` returns
RetrySleepEnds ==
    /\ retryPc = "sleeping"
    /\ retryPc' = "loop"
    /\ UNCHANGED <<attempts, outcomes, delays, exc, should_retry, classified>>
    /\ UNCHANGED <<respVars, nonFlowVars>>

NextRetry ==
    \/ OpenaiStreamAttempt
    \/ RetrySleepEnds

SpecRetry == Init /\ [][NextRetry]_vars

\* ------------------------------------------------ gpt_flow.py: _should_retry
\* texts are sequences of characters; str.lower() on the letters that occur
Lower(text) ==
    LET low == [c \in {"A", "B", "E", "I", "L", "P", "R", "S", "V"} |-> CASE c = "A" -> "a" [] c = "B" -> "b" [] c = "E" -> "e" [] c = "I" -> "i" [] c = "L" -> "l" [] c = "P" -> "p" [] c = "R" -> "r" [] c = "S" -> "s" [] c = "V" -> "v"]
    IN  [x \in 1..Len(text) |-> IF text[x] \in DOMAIN low THEN low[text[x]] ELSE text[x]]

\* `k in text`
Contains(text, k) ==
    \E x \in 0..(Len(text) - Len(k)) : SubSeq(text, x + 1, x + Len(k)) = k

retryable_names ==
    {<<"r", "a", "t", "e", "l", "i", "m", "i", "t">>,
     <<"t", "i", "m", "e", "o", "u", "t">>,
     <<"a", "p", "i", "t", "i", "m", "e", "o", "u", "t">>,
     <<"s", "e", "r", "v", "i", "c", "e", "u", "n", "a", "v", "a", "i", "l", "a", "b", "l", "e">>,
     <<"a", "p", "i", "e", "r", "r", "o", "r">>,
     <<"a", "p", "i", "s", "t", "a", "t", "u", "s", "e", "r", "r", "o", "r">>,
     <<"h", "t", "t", "p", "r", "e", "s", "p", "o", "n", "s", "e", "e", "r", "r", "o", "r">>,
     <<"h", "t", "t", "p", "s", "e", "r", "r", "o", "r">>,
     <<"b", "a", "d", "g", "a", "t", "e", "w", "a", "y">>,
     <<"g", "a", "t", "e", "w", "a", "y", "t", "i", "m", "e", "o", "u", "t">>,
     <<"t", "o", "o", " ", "m", "a", "n", "y", " ", "r", "e", "q", "u", "e", "s", "t", "s">>,
     <<"c", "o", "n", "n", "e", "c", "t", "i", "o", "n", "e", "r", "r", "o", "r">>}

\* the codes looked for in the message
RetryableCodes ==
    {<<"4", "2", "9">>,
     <<"5", "0", "2">>,
     <<"5", "0", "3">>,
     <<"5", "0", "4">>}

\* type(exc).__name__ of the errors a request raises
ExceptionNames ==
    {<<"R", "a", "t", "e", "L", "i", "m", "i", "t", "E", "r", "r", "o", "r">>,
     <<"I", "n", "t", "e", "r", "n", "a", "l", "S", "e", "r", "v", "e", "r", "E", "r", "r", "o", "r">>,
     <<"B", "a", "d", "R", "e", "q", "u", "e", "s", "t", "E", "r", "r", "o", "r">>,
     <<"A", "P", "I", "E", "r", "r", "o", "r">>,
     <<"V", "a", "l", "u", "e", "E", "r", "r", "o", "r">>}

\* str(exc)
ExceptionMessages ==
    {<<"E", "r", "r", "o", "r", " ", "c", "o", "d", "e", ":", " ", "5", "0", "0">>,
     <<"E", "r", "r", "o", "r", " ", "c", "o", "d", "e", ":", " ", "4", "2", "9">>,
     <<"E", "r", "r", "o", "r", " ", "c", "o", "d", "e", ":", " ", "4", "0", "0">>,
     <<"R", "e", "q", "u", "e", "s", "t", " ", "t", "i", "m", "e", "d", " ", "o", "u", "t", ".">>,
     <<"b", "a", "d", " ", "i", "n", "p", "u", "t">>}

\* the HTTP status an error carries; 0 when it carries none
HttpStatuses == {0, 400, 408, 425, 429, 500, 502, 503, 504}

Exceptions ==
    [name : ExceptionNames, message : ExceptionMessages, status : HttpStatuses]

\* _should_retry(exc): TRUE when a retryable name is part of the lowered type
\* name or message, or a retryable code is part of the message
ShouldRetryOf(e) ==
    LET name == Lower(e.name)
        msg  == Lower(e.message)
    IN  \/ \E k \in retryable_names : Contains(name, k) \/ Contains(msg, k)
        \/ \E code \in RetryableCodes : Contains(msg, code)

\* a request fails with exc and the except clause asks _should_retry
ShouldRetry ==
    /\ \E e \in Exceptions :
        /\ exc' = e
        /\ should_retry' = ShouldRetryOf(e)
    /\ classified' = TRUE
    /\ UNCHANGED <<attempts, retryPc, outcomes, delays>>
    /\ UNCHANGED <<respVars, nonFlowVars>>

NextClassify ==
    \/ ShouldRetry

SpecClassify == Init /\ [][NextClassify]_vars

\* --------------------------------------- gpt_flow.py: process_gpt_response
\* texts are sequences of characters
TTS_END == {";", ".", "?", "!"}

\* the text deltas of a stream: a word, a terminator on its own, a word that
\* ends in a terminator, a space
TextDeltas == {<<"a">>, <<".">>, <<"a", ".">>, <<" ">>}

\* the id a tool-call delta carries; "None" on the deltas that continue a call
ToolCallIds == {"call_a", "None"}

\* the user's prompt of a turn
UserPrompts == {<<"h", "i">>}

RECURSIVE Join(_)
\* "".join(parts)
Join(parts) == IF parts = <<>> THEN <<>> ELSE Head(parts) \o Join(Tail(parts))

RECURSIVE LStrip(_)
LStrip(text) == IF text # <<>> /\ Head(text) = " " THEN LStrip(Tail(text)) ELSE text

RECURSIVE RStrip(_)
RStrip(text) ==
    IF text # <<>> /\ text[Len(text)] = " "
    THEN RStrip(SubSeq(text, 1, Len(text) - 1))
    ELSE text

\* str.strip()
Strip(text) == LStrip(RStrip(text))

\* `delta.content in TTS_END`: the delta is a member of the set of terminators
InTtsEnd(content) == \E t \in TTS_END : content = <<t>>

\* add_space(text), of the helpers module: the text, with a space after it or not
AddSpaceResults(text) == {text, Append(text, " ")}

\* the state a call of _consume_openai_stream starts in
FreshStream ==
    /\ collected' = <<>>
    /\ final_chunks' = <<>>
    /\ tool' = [started |-> FALSE, call_id |-> "None"]

\* process_gpt_response(cm, user_prompt, ...) for a turn of the user, up to the
\* stream it obtains
ProcessGptResponse ==
    /\ flowPc = "idle"
    /\ \E user_prompt \in UserPrompts :
        agent_history' = Append(agent_history, [role |-> "user", content |-> user_prompt])
    /\ FreshStream
    /\ flowPc' = "stream"
    /\ turns' = turns + 1
    /\ UNCHANGED <<nChunks, reentries, tool_responses, retryVars, nonFlowVars>>

\* a chunk without choices, or a delta with neither tool call nor content
ConsumeEmptyChunk ==
    /\ flowPc = "stream"
    /\ nChunks < MaxChunks
    /\ nChunks' = nChunks + 1
    /\ UNCHANGED <<flowPc, agent_history, collected, final_chunks, tool, turns, reentries,
                   tool_responses>>
    /\ UNCHANGED <<retryVars, nonFlowVars>>

\* a delta with tool_calls
ConsumeToolCallDelta ==
    /\ flowPc = "stream"
    /\ nChunks < MaxChunks
    /\ nChunks' = nChunks + 1
    /\ \E id \in ToolCallIds :
        tool' = [started |-> TRUE, call_id |-> IF id # "None" THEN id ELSE tool.call_id]
    /\ UNCHANGED <<flowPc, agent_history, collected, final_chunks, turns, reentries,
                   tool_responses>>
    /\ UNCHANGED <<retryVars, nonFlowVars>>

\* a delta with content: it is collected, and when it is a terminator the
\* collected text is emitted and the buffer cleared; recorded says whether the
\* emitted chunk is also appended to the history
ConsumeTextDeltaOf(recorded) ==
    /\ flowPc = "stream"
    /\ nChunks < MaxChunks
    /\ nChunks' = nChunks + 1
    /\ \E content \in TextDeltas :
        IF InTtsEnd(content)
        THEN /\ \E streaming \in AddSpaceResults(Strip(Join(Append(collected, content)))) :
                    /\ final_chunks' = Append(final_chunks, streaming)
                    /\ agent_history' =
                            IF recorded
                            THEN Append(agent_history, [role |-> "assistant", content |-> streaming])
                            ELSE agent_history
             /\ collected' = <<>>
        ELSE /\ collected' = Append(collected, content)
             /\ UNCHANGED <<final_chunks, agent_history>>
    /\ UNCHANGED <<flowPc, tool, turns, reentries, tool_responses>>
    /\ UNCHANGED <<retryVars, nonFlowVars>>

\* apps/rtagent/backend/src/orchestration/gpt_flow.py: the chunk is emitted
ConsumeTextDelta == ConsumeTextDeltaOf(FALSE)

\* rtagent/backend/orchestration/gpt_flow.py: the chunk is emitted and
\* `agent_history.append({"role": "assistant", "content": streaming})`
ConsumeTextDeltaRecorded == ConsumeTextDeltaOf(TRUE)

\* the chunks emitted once the stream has ended: the trailing text, when it is
\* not blank, is the last one
ChunksAtEnd ==
    IF collected # <<>> /\ Strip(Join(collected)) # <<>>
    THEN Append(final_chunks, Strip(Join(collected)))
    ELSE final_chunks

\* a follow-up after every stream
ToolFollowupAlways == TRUE

\* `if tool_state.started:`
ToolFollowupDue == tool.started

\* the stream ends: trailing content, then process_gpt_response records the
\* assistant text when there is any, and the tool call when one was started
StreamEndsWith(chunks) ==
    /\ flowPc = "stream"
    /\ final_chunks' = chunks
    /\ LET full_text == Strip(Join(chunks))
           withText == IF full_text # <<>>
                       THEN Append(agent_history, [role |-> "assistant", content |-> full_text])
                       ELSE agent_history
       IN  IF ToolFollowupDue
           THEN /\ agent_history' = Append(withText,
                        [role |-> "assistant", tool_calls |-> <<tool.call_id>>])
                /\ flowPc' = "tool"
           ELSE /\ agent_history' = withText
                /\ flowPc' = "done"
    /\ tool_responses' = IF tool.started THEN tool_responses + 1 ELSE tool_responses
    /\ UNCHANGED <<collected, tool, nChunks, turns, reentries>>
    /\ UNCHANGED <<retryVars, nonFlowVars>>

StreamEnds == StreamEndsWith(ChunksAtEnd)

\* rtagent/backend/orchestration/gpt_flow.py: the trailing text is a chunk also
\* when it is blank
ChunksAtEndRecorded ==
    IF collected # <<>> THEN Append(final_chunks, Strip(Join(collected))) ELSE final_chunks

StreamEndsRecorded == StreamEndsWith(ChunksAtEndRecorded)

\* _handle_tool_call: the tool returns; its result is recorded, and
\* _process_tool_followup calls process_gpt_response(cm, "", ...)
HandleToolCall ==
    /\ flowPc = "tool"
    /\ agent_history' = agent_history
            \o <<[role |-> "tool", tool_call_id |-> tool.call_id],
                 [role |-> "user", content |-> <<>>]>>
    /\ FreshStream
    /\ flowPc' = "stream"
    /\ reentries' = reentries + 1
    /\ UNCHANGED <<nChunks, turns, tool_responses, retryVars, nonFlowVars>>

\* _handle_tool_call: the tool is unknown or fails, and the error propagates
HandleToolCallRaises ==
    /\ flowPc = "tool"
    /\ flowPc' = "raised"
    /\ UNCHANGED <<agent_history, streamVars, turns, reentries, tool_responses, retryVars,
                   nonFlowVars>>

NextFlow ==
    \/ ProcessGptResponse
    \/ ConsumeEmptyChunk
    \/ ConsumeToolCallDelta
    \/ ConsumeTextDelta
    \/ StreamEnds
    \/ HandleToolCall
    \/ HandleToolCallRaises

SpecFlow == Init /\ [][NextFlow]_vars

\* process_gpt_response of rtagent/backend/orchestration/gpt_flow.py
NextFlowRecorded ==
    \/ ProcessGptResponse
    \/ ConsumeEmptyChunk
    \/ ConsumeToolCallDelta
    \/ ConsumeTextDeltaRecorded
    \/ StreamEndsRecorded
    \/ HandleToolCall
    \/ HandleToolCallRaises

SpecFlowRecorded == Init /\ [][NextFlowRecorded]_vars

\* ------------------------------- acs_handler.py: the DTMF events of a call
\* the tones ACS reports: words and characters the handler maps, and "a", which
\* it does not
Tones == {"one", "2", "three", "star", "a"}

\* tone_map, on the lower-cased tone
tone_map ==
    [t \in {"zero", "0", "one", "1", "two", "2", "three", "3", "four", "4", "five", "5",
            "six", "6", "seven", "7", "eight", "8", "nine", "9", "star", "*", "asterisk",
            "pound", "#", "hash"} |->
        CASE t \in {"zero", "0"} -> "0"
          [] t \in {"one", "1"} -> "1"
          [] t \in {"two", "2"} -> "2"
          [] t \in {"three", "3"} -> "3"
          [] t \in {"four", "4"} -> "4"
          [] t \in {"five", "5"} -> "5"
          [] t \in {"six", "6"} -> "6"
          [] t \in {"seven", "7"} -> "7"
          [] t \in {"eight", "8"} -> "8"
          [] t \in {"nine", "9"} -> "9"
          [] t \in {"star", "*", "asterisk"} -> "*"
          [] OTHER -> "#"]

\* `while len(dtmf_list) <= seq_index: dtmf_list.append("")`
PadTo(dtmf_list, seq_index) ==
    dtmf_list \o [x \in 1..(seq_index + 1 - Len(dtmf_list)) |-> ""]

\* "".join(dtmf_list): the empty strings leave nothing behind
JoinChars(dtmf_list) == SelectSeq(dtmf_list, LAMBDA c : c # "")

\* the sequence after `dtmf_list[seq_index] = tone_numeric` and the join
PlaceTone(sequence, sequence_id, tone_numeric) ==
    JoinChars([PadTo(sequence, sequence_id - 1) EXCEPT ![sequence_id] = tone_numeric])

\* the value the "first 3 digits" check compares
sample_value == <<"1", "2", "3">>

\* _handle_dtmf_tone_received for a tone and its sequenceId
HandleDtmfToneReceived(sequence_id, tone) ==
    /\ toneLog' = [toneLog EXCEPT ![sequence_id] = tone]
    /\ IF tone \in DOMAIN tone_map
       THEN LET placed == PlaceTone(dtmf_sequence, sequence_id, tone_map[tone])
            IN  /\ dtmf_sequence' = placed
                /\ dtmf_validated' = IF Len(placed) >= 3
                                     THEN SubSeq(placed, 1, 3) = sample_value
                                     ELSE dtmf_validated
       ELSE UNCHANGED <<dtmf_sequence, dtmf_validated>>
    /\ UNCHANGED <<target_participant_joined, dtmf_started>>
    /\ UNCHANGED nonDtmfVars

\* the sequenceIds delivered so far
Delivered == {k \in 1..MaxTones : toneLog[k] # "none"}

\* ParticipantsUpdated with the PSTN participant present: DTMF recognition is
\* started unless it was, and the start call succeeds or raises
ParticipantsUpdated ==
    /\ target_participant_joined' = TRUE
    /\ IF ~dtmf_started
       THEN /\ dtmf_sequence' = <<>>
            /\ dtmf_validated' = FALSE
            /\ dtmf_started' \in BOOLEAN
       ELSE UNCHANGED <<dtmf_started, dtmf_sequence, dtmf_validated>>
    /\ UNCHANGED toneLog
    /\ UNCHANGED nonDtmfVars

\* ParticipantsUpdated without a PSTN participant
ParticipantsUpdatedNoTarget ==
    /\ target_participant_joined' = FALSE
    /\ UNCHANGED <<dtmf_started, dtmf_sequence, dtmf_validated, toneLog>>
    /\ UNCHANGED nonDtmfVars

\* ContinuousDtmfRecognitionToneReceived, the tones arriving in the order of
\* their sequenceIds
DtmfToneInOrder ==
    /\ dtmf_started
    /\ Cardinality(Delivered) < MaxTones
    /\ \E tone \in Tones : HandleDtmfToneReceived(Cardinality(Delivered) + 1, tone)

\* ContinuousDtmfRecognitionToneReceived, the events delivered in any order
DtmfToneAnyOrder ==
    /\ dtmf_started
    /\ \E sequence_id \in (1..MaxTones) \ Delivered : \E tone \in Tones :
        HandleDtmfToneReceived(sequence_id, tone)

NextDtmfOrdered ==
    \/ ParticipantsUpdated
    \/ ParticipantsUpdatedNoTarget
    \/ DtmfToneInOrder

SpecDtmfOrdered == Init /\ [][NextDtmfOrdered]_vars

NextDtmf ==
    \/ ParticipantsUpdated
    \/ ParticipantsUpdatedNoTarget
    \/ DtmfToneAnyOrder

SpecDtmf == Init /\ [][NextDtmf]_vars

\* ------------------------------------- the conversation memory of a call
\* MemoManager.from_redis and refresh_from_redis_async: the snapshot the store
\* holds for the call
StoreSnapshot ==
    [loaded |-> TRUE, dtmf_sequence |-> dtmf_sequence, dtmf_validated |-> dtmf_validated,
     history |-> store_history]

\* media.py, _create_media_handler: `memory_manager = MemoManager.from_redis(...)`,
\* the MemoManager the handler and its turns keep for the whole call
LoadHandlerMemory ==
    /\ ~turn_cm.loaded
    /\ turn_cm' = StoreSnapshot
    /\ UNCHANGED <<dtmf_sequence, dtmf_validated, store_history>>
    /\ UNCHANGED nonMemoVars

\* MainEventLoop._perform_memory_refresh: the handler's MemoManager is reloaded
PerformMemoryRefresh ==
    /\ turn_cm.loaded
    /\ turn_cm # StoreSnapshot
    /\ turn_cm' = [StoreSnapshot EXCEPT !.history = turn_cm.history]
    /\ UNCHANGED <<dtmf_sequence, dtmf_validated, store_history>>
    /\ UNCHANGED nonMemoVars

\* the turn path persists its MemoManager: set(call_id, snapshot)
PersistSnapshot ==
    [dtmf_sequence |-> turn_cm.dtmf_sequence, dtmf_validated |-> turn_cm.dtmf_validated]

\* a turn ends: the assistant's message is in the history of the handler's
\* MemoManager, which is persisted
TurnPersists ==
    /\ turn_cm.loaded
    /\ turn_cm.history < MaxPersists
    /\ turn_cm' = [turn_cm EXCEPT !.history = @ + 1]
    /\ store_history' = turn_cm.history + 1
    /\ dtmf_sequence' = PersistSnapshot.dtmf_sequence
    /\ dtmf_validated' = PersistSnapshot.dtmf_validated
    /\ UNCHANGED nonMemoVars

NextMemory ==
    \/ ParticipantsUpdated
    \/ ParticipantsUpdatedNoTarget
    \/ DtmfToneInOrder
    \/ LoadHandlerMemory
    \/ PerformMemoryRefresh
    \/ TurnPersists

SpecMemory == Init /\ [][NextMemory]_vars

\* ------------------- _backup/handlers/acs_transcript_handler.py: transcripts
\* _handle_intermediate_transcription: nothing unless the bot is speaking, else
\* the media operations are cancelled and the interruption is counted
HandleIntermediateTranscription(bot_speaking) ==
    /\ interrupt_count' = IF bot_speaking THEN interrupt_count + 1 ELSE interrupt_count
    /\ transcripts' = Append(transcripts, [status |-> "Intermediate", bot_speaking |-> bot_speaking])

\* _handle_final_transcription: `update_context("interrupt_count", 0)`, then the
\* turn is routed
HandleFinalTranscription(bot_speaking) ==
    /\ interrupt_count' = 0
    /\ transcripts' = Append(transcripts, [status |-> "Final", bot_speaking |-> bot_speaking])

\* handle_transcription_message for a TranscriptionData message
HandleTranscriptionMessage ==
    /\ Len(transcripts) < MaxTranscripts
    /\ \E bot_speaking \in BOOLEAN :
        \/ HandleIntermediateTranscription(bot_speaking)
        \/ HandleFinalTranscription(bot_speaking)
    /\ UNCHANGED nonTranscriptVars

NextTranscript ==
    \/ HandleTranscriptionMessage

SpecTranscript == Init /\ [][NextTranscript]_vars

\* ------------------------------------------------------------- SpecStop
\* one handler, its playbacks, and calls of the stop methods
NextStop ==
    \/ HandlerStart
    \/ QueueDirectTextPlayback
    \/ RouterGet
    \/ PlaybackTaskEnds
    \/ PlaybackTaskCancelled
    \/ RouterAfterPlayback
    \/ StopBegin
    \/ StopAgain
    \/ StopAfterTask
    \/ StopCancelLoop
    \/ StopSpeechSdk
    \/ SpeechSdkStop

SpecStop == Init /\ [][NextStop]_vars

\* the same, with stops that fail
NextStopRaises ==
    \/ NextStop
    \/ StopRouterRaises

SpecStopRaises == Init /\ [][NextStopRaises]_vars

\* ------------------------------------------------------------- SpecTurn
NextTurn ==
    \/ HandlerStart
    \/ OnFinal
    \/ OnError
    \/ QueueDirectTextPlayback
    \/ OnPartial
    \/ RouterGet
    \/ RouterTimeout
    \/ OrchestratorReturns
    \/ PlaybackTaskEnds
    \/ PlaybackTaskCancelled
    \/ RouterAfterPlayback
    \/ HandleBargeIn
    \/ (\E i \in 1..MaxPartials : BargeInAfterCancel(i))
    \/ (\E i \in 1..MaxPartials : BargeInFinish(i))
    \/ ResetStart
    \/ TimerExpire
    \/ ResetWake
    \/ Tick
    \/ StopBegin
    \/ StopAfterTask
    \/ StopCancelLoop
    \/ StopSpeechSdk

SpecTurn == Init /\ [][NextTurn]_vars

\* ------------------------------------------------------------ SpecQueue
NextQueue ==
    \/ HandlerStart
    \/ OnFinal
    \/ OnError
    \/ QueueDirectTextPlayback
    \/ RouterGet
    \/ RouterTimeout
    \/ OrchestratorReturns
    \/ PlaybackTaskEnds
    \/ RouterAfterPlayback

SpecQueue == Init /\ [][NextQueue]_vars

\* ------------------------------------------------------------ SpecBarge
NextBarge ==
    \/ HandlerStart
    \/ QueueDirectTextPlayback
    \/ OnPartial
    \/ RouterGet
    \/ PlaybackTaskEnds
    \/ PlaybackTaskCancelled
    \/ RouterAfterPlayback
    \/ HandleBargeIn
    \/ (\E i \in 1..MaxPartials : BargeInAfterCancel(i))
    \/ (\E i \in 1..MaxPartials : BargeInFinish(i))
    \/ ResetStart
    \/ TimerExpire
    \/ ResetWake
    \/ Tick
    \/ FreeTick

SpecBarge == Init /\ [][NextBarge]_vars

\* the same, the Partials of any length
NextPartial ==
    \/ HandlerStart
    \/ QueueDirectTextPlayback
    \/ OnPartialAnyLength
    \/ RouterGet
    \/ PlaybackTaskEnds
    \/ PlaybackTaskCancelled
    \/ RouterAfterPlayback
    \/ HandleBargeIn
    \/ (\E i \in 1..MaxPartials : BargeInAfterCancel(i))
    \/ (\E i \in 1..MaxPartials : BargeInFinish(i))
    \/ ResetStart
    \/ TimerExpire
    \/ ResetWake
    \/ Tick
    \/ FreeTick

SpecPartial == Init /\ [][NextPartial]_vars

\* barge-ins whose steps may fail: the cancelled task may end with an error and
\* the StopAudio send may raise
NextBargeFail ==
    \/ HandlerStart
    \/ QueueDirectTextPlayback
    \/ OnPartial
    \/ RouterGet
    \/ PlaybackTaskEnds
    \/ PlaybackTaskCancelled
    \/ PlaybackTaskCancelledRaises
    \/ RouterAfterPlayback
    \/ HandleBargeInSendMayFail
    \/ (\E i \in 1..MaxPartials : BargeInAfterCancelSendMayFail(i))
    \/ (\E i \in 1..MaxPartials : BargeInFinish(i))
    \/ ResetStart
    \/ TimerExpire
    \/ ResetWake
    \/ Tick

SpecBargeFail == Init /\ [][NextBargeFail]_vars

\* the main loop runs every callback that is ready, time passes while a sleep is
\* pending, and a task that was cancelled comes to its end
BargeFairness ==
    /\ WF_vars(HandleBargeInSendMayFail)
    /\ \A i \in 1..MaxPartials : WF_vars(BargeInAfterCancelSendMayFail(i))
    /\ \A i \in 1..MaxPartials : WF_vars(BargeInFinish(i))
    /\ WF_vars(ResetStart)
    /\ WF_vars(Tick)
    /\ WF_vars(TimerExpire)
    /\ WF_vars(ResetWake)
    /\ WF_vars(PlaybackTaskCancelled \/ PlaybackTaskCancelledRaises)

LiveBargeFail == Init /\ [][NextBargeFail]_vars /\ BargeFairness

\* ------------------------------------------------------------- LiveTurn
NextLive ==
    \/ HandlerStart
    \/ OnFinal
    \/ QueueDirectTextPlayback
    \/ OnPartial
    \/ RouterGet
    \/ RouterTimeout
    \/ OrchestratorReturns
    \/ PlaybackTaskEnds
    \/ PlaybackTaskCancelled
    \/ RouterAfterPlayback
    \/ HandleBargeIn
    \/ (\E i \in 1..MaxPartials : BargeInAfterCancel(i))
    \/ (\E i \in 1..MaxPartials : BargeInFinish(i))
    \/ ResetStart
    \/ TimerExpire
    \/ ResetWake
    \/ Tick

\* the event loop runs every task that is ready: the router's loop, the playback
\* task, and the orchestrator call, which returns
RouterFairness ==
    /\ WF_vars(RouterGet)
    /\ WF_vars(OrchestratorReturns)
    /\ WF_vars(PlaybackTaskEnds)
    /\ WF_vars(PlaybackTaskCancelled)
    /\ WF_vars(RouterAfterPlayback)

LiveTurn == Init /\ [][NextLive]_vars /\ RouterFairness

\* turns that fail: the orchestrator call or the playback raises
NextTurnErrors ==
    \/ HandlerStart
    \/ OnFinal
    \/ OnError
    \/ QueueDirectTextPlayback
    \/ RouterGet
    \/ RouterTimeout
    \/ OrchestratorReturns
    \/ OrchestratorRaises
    \/ PlaybackTaskEnds
    \/ PlaybackTaskRaises
    \/ RouterAfterPlayback

LiveTurnErrors == Init /\ [][NextTurnErrors]_vars /\ RouterFairness

\* ------------------- the speech queue under two threads: recognizer and loop
\* asyncio.Queue is used from the recognizer's callback thread without a lock, so
\* the calls put_nowait_or_drop_oldest makes (put_nowait: full() then append;
\* get_nowait: empty() then popleft) interleave with the main loop's operations

\* on_final on the recognizer thread: queue_speech_result calls
\* put_nowait_or_drop_oldest, whose put_nowait tests full()
RecognizerQueuesEvent ==
    /\ tpc = "idle"
    /\ Len(enqLog) < MaxRaceEvents
    /\ tEvent' = SpeechEvent("final", Len(enqLog) + 1)
    /\ enqLog' = Append(enqLog, "final")
    /\ tpc' = IF QueueFull(speech_queue) THEN "get_nowait" ELSE "put"
    /\ UNCHANGED <<speech_queue, putResults, pendingPuts, processedLog, drainedLog, droppedLog>>
    /\ UNCHANGED nonRaceVars

\* put_nowait after full() answered False: the item is appended, _update_hwm, True
PutNowaitAppends ==
    /\ tpc = "put"
    /\ speech_queue' = update_hwm([speech_queue EXCEPT !.items = Append(@, tEvent)])
    /\ putResults' = Append(putResults, TRUE)
    /\ tpc' = "idle"
    /\ UNCHANGED <<enqLog, tEvent, pendingPuts, processedLog, drainedLog, droppedLog>>
    /\ UNCHANGED nonRaceVars

\* except QueueFull: get_nowait() tests empty(); QueueEmpty is caught, False
DropOldestGetNowait ==
    /\ tpc = "get_nowait"
    /\ tpc' = IF speech_queue.items = <<>> THEN "fallback" ELSE "popleft"
    /\ putResults' = IF speech_queue.items = <<>> THEN Append(putResults, FALSE) ELSE putResults
    /\ UNCHANGED <<speech_queue, enqLog, tEvent, pendingPuts, processedLog, drainedLog,
                   droppedLog>>
    /\ UNCHANGED nonRaceVars

\* get_nowait() removes the oldest item (IndexError on an emptied deque is caught,
\* False), dropped_events += 1, and the second put_nowait tests full()
DropOldestPopleft ==
    /\ tpc = "popleft"
    /\ IF speech_queue.items = <<>>
       THEN /\ tpc' = "fallback"
            /\ putResults' = Append(putResults, FALSE)
            /\ UNCHANGED <<speech_queue, droppedLog>>
       ELSE /\ speech_queue' = drop_oldest(speech_queue)
            /\ droppedLog' = Append(droppedLog, NextItem(speech_queue.items).id)
            /\ tpc' = IF QueueFull(drop_oldest(speech_queue)) THEN "fallback" ELSE "put"
            /\ putResults' = IF QueueFull(drop_oldest(speech_queue))
                             THEN Append(putResults, FALSE) ELSE putResults
    /\ UNCHANGED <<enqLog, tEvent, pendingPuts, processedLog, drainedLog>>
    /\ UNCHANGED nonRaceVars

\* queue_speech_result after False: run_coroutine_threadsafe(speech_queue.put(event))
ThreadsafeFallback ==
    /\ tpc = "fallback"
    /\ pendingPuts' = Append(pendingPuts, tEvent)
    /\ tpc' = "result"
    /\ UNCHANGED <<speech_queue, enqLog, putResults, tEvent, processedLog, drainedLog,
                   droppedLog>>
    /\ UNCHANGED nonRaceVars

StillPending(ev) == \E k \in 1..Len(pendingPuts) : pendingPuts[k] = ev

\* future.result(timeout=0.1) returns: the put ran on the loop
FutureResultReturns ==
    /\ tpc = "result"
    /\ ~StillPending(tEvent)
    /\ tpc' = "idle"
    /\ UNCHANGED <<speech_queue, enqLog, putResults, tEvent, pendingPuts, processedLog,
                   drainedLog, droppedLog>>
    /\ UNCHANGED nonRaceVars

\* future.result(timeout=0.1) times out: RuntimeError leaves the callback, the
\* coroutine stays scheduled on the loop
FutureResultTimesOut ==
    /\ tpc = "result"
    /\ StillPending(tEvent)
    /\ tpc' = "idle"
    /\ UNCHANGED <<speech_queue, enqLog, putResults, tEvent, pendingPuts, processedLog,
                   drainedLog, droppedLog>>
    /\ UNCHANGED nonRaceVars

\* the main loop runs a scheduled speech_queue.put(event): it waits while the
\* queue is full, then put_nowait
LoopRunsPut ==
    /\ pendingPuts # <<>>
    /\ ~QueueFull(speech_queue)
    /\ speech_queue' = [speech_queue EXCEPT !.items = Append(@, Head(pendingPuts))]
    /\ pendingPuts' = Tail(pendingPuts)
    /\ UNCHANGED <<enqLog, putResults, tpc, tEvent, processedLog, drainedLog, droppedLog>>
    /\ UNCHANGED nonRaceVars

\* _processing_loop on the main loop: speech_queue.get() returns the oldest item
RouterTakes ==
    /\ speech_queue.items # <<>>
    /\ processedLog' = Append(processedLog, NextItem(speech_queue.items).id)
    /\ speech_queue' = [speech_queue EXCEPT !.items = RestItems(@)]
    /\ UNCHANGED <<enqLog, putResults, tpc, tEvent, pendingPuts, drainedLog, droppedLog>>
    /\ UNCHANGED nonRaceVars

\* cancel_current_processing on the main loop: get_nowait() until empty()
BargeInDrains ==
    /\ speech_queue.items # <<>>
    /\ drainedLog' = drainedLog \o [k \in 1..Len(speech_queue.items) |-> speech_queue.items[k].id]
    /\ speech_queue' = [speech_queue EXCEPT !.items = <<>>]
    /\ UNCHANGED <<enqLog, putResults, tpc, tEvent, pendingPuts, processedLog, droppedLog>>
    /\ UNCHANGED nonRaceVars

NextRace ==
    \/ RecognizerQueuesEvent
    \/ PutNowaitAppends
    \/ DropOldestGetNowait
    \/ DropOldestPopleft
    \/ ThreadsafeFallback
    \/ FutureResultReturns
    \/ FutureResultTimesOut
    \/ LoopRunsPut
    \/ RouterTakes
    \/ BargeInDrains

SpecRace == Init /\ [][NextRace]_vars

\* =============================================================== properties
IdsOf(items) == [x \in 1..Len(items) |-> items[x].id]

QueuedIds == Range(IdsOf(speech_queue.items))

IsFinal(ev) == ev.type = "final"

\* every event put so far, in the order of the calls
Enqueued == [k \in 1..Len(enqLog) |-> SpeechEvent(enqLog[k], k)]

\* C6: at most one response chain of the call is running at any time.
C6_OneResponseChain == Cardinality(ActiveChains) <= 1

C5_FifoTurns ==
    (cancelInvoked = {} /\ speech_queue.dropped_events = 0 /\ ~handler_stopped) =>
        llmInvocations \o IdsOf(SelectSeq(speech_queue.items, IsFinal))
            = IdsOf(SelectSeq(Enqueued, IsFinal))

\* two FINAL events waited in the queue together and both reached the orchestrator
C5_Witness ==
    /\ cancelInvoked = {} /\ speech_queue.dropped_events = 0 /\ ~handler_stopped
    /\ Len(llmInvocations) >= 2
    /\ llmInvocations[Len(llmInvocations)] = Len(enqLog) - 1
    /\ Len(SelectSeq(speech_queue.items, IsFinal)) >= 1
    /\ qsize(speech_queue) = 1 /\ getCount = Len(enqLog) - 1

\* C2: barge-in handlers scheduled less than the reset delay apart never both
\* execute: at most one of them calls cancel_current_processing and at most one
\* sends StopAudio; and at most one handler is between its flag check and its end.
C2_SingleFlight ==
    /\ \A i, j \in cancelInvoked :
        i # j => (bsched[i] - bsched[j] >= BargeResetTicks
                  \/ bsched[j] - bsched[i] >= BargeResetTicks)
    /\ stopAudioSent \subseteq cancelInvoked
    /\ Cardinality({i \in 1..MaxPartials : bpc[i] \in {"await_task", "sending"}}) <= 1

\* a second handler, scheduled inside the window of one that executed, was skipped
C2_Witness ==
    \E i, j \in 1..MaxPartials :
        /\ i # j
        /\ i \in stopAudioSent
        /\ bpc[j] = "skipped"
        /\ bsched[j] > bsched[i]
        /\ bsched[j] - bsched[i] < BargeResetTicks

\* C3: when handle_barge_in has completed, the response that was running when it
\* started (an orchestrator call for a FINAL, or a direct playback) is not running.
C3_BargeInCancelsResponse ==
    \A i \in 1..MaxPartials :
        (bpc[i] = "done" /\ bStartResp[i] # 0) => RunningResponse # bStartResp[i]

\* a FINAL waits in the queue after the last barge-in of the run has executed
FinalWaiting(k) ==
    /\ k \in QueuedIds
    /\ enqLog[k] = "final"
    /\ cancelInvoked # {}
    /\ nPartials = MaxPartials
    /\ \A i \in 1..MaxPartials : bpc[i] \in {"done", "skipped"}

\* the orchestrator was invoked for it, or the overflow policy dropped it
FinalSettled(k) ==
    \/ k \in Range(llmInvocations)
    \/ (k \notin QueuedIds /\ speech_queue.dropped_events > 0)

\* C4: no barge-in ends the router's loop, and a FINAL put on the queue after the
\* barge-ins is eventually taken from the queue and handed to the orchestrator
\* (unless the overflow policy drops it first).
C4_RouterSurvivesBargeIn ==
    /\ [](routerPc # "exited")
    /\ \A k \in 1..MaxEvents : (FinalWaiting(k) ~> FinalSettled(k))

\* a playback was cancelled by a barge-in and a FINAL put later was processed
C4_Witness ==
    \E i \in 1..MaxPartials : \E k \in Range(llmInvocations) :
        /\ bpc[i] = "done"
        /\ bStartResp[i] # 0
        /\ enqLog[bStartResp[i]] \in DirectTypes
        /\ k > bStartResp[i]

\* C1: a handler found registered and running had its stop() invoked before the
\* new handler was installed; and once every connection's start request is over
\* (none has begun its teardown), the registry holds one entry for the call and at
\* most one of the call's handlers has is_running true.
C1_RegistryUnique ==
    /\ \A x \in DOMAIN installLog :
        installLog[x].found # 0 => h_stopped[installLog[x].found]
    /\ (/\ \A c \in 1..MaxConnections : connPc[c] \in {"serving", "failed"}
        /\ \E c \in 1..MaxConnections : connPc[c] = "serving")
       => (active_handlers # 0 /\ Cardinality(RunningHandlers) <= 1)

\* the GREETING events put on the speech queue so far
GreetingsQueued == Len(SelectSeq(enqLog, LAMBDA t : t = "greeting"))

\* C8: with validation on, no AudioData frame handled while the gate is closed is
\* handed on towards the recognizer, and the closed-gate info log has been emitted
\* exactly once if any frame was dropped at the gate (never otherwise).
C8_ClosedGateDrops ==
    /\ forwardedWhileClosed = 0
    /\ forwarded <= nAudio - framesWhileClosed
    /\ closedGateLogs = IF framesWhileClosed > 0 THEN 1 ELSE 0

\* several frames were dropped at the gate, the gate opened, a later frame passed
C8_Witness ==
    /\ dtmf_validation_enabled
    /\ framesWhileClosed >= 2
    /\ closedGateLogs = 1
    /\ validation_gate_open
    /\ forwarded = 1

\* C9: once a validation waiter has timed out the gate is open.
C9_GateOpensOnTimeout ==
    (dtmf_validation_enabled /\ \E x \in DOMAIN waiterResults : waiterResults[x] = "timeout")
        => validation_gate_open

\* C10: at most one GREETING event is ever queued; with a greeting configured it has
\* been queued exactly once whenever the gate is open, and only then.
C10_GreetingOnce ==
    /\ GreetingsQueued <= 1
    /\ (validation_gate_open /\ greeting_text) => GreetingsQueued = 1
    /\ GreetingsQueued = 1 => validation_gate_open

\* the gate was opened by a second waiter after the greeting had been queued
C10_Witness ==
    /\ GreetingsQueued = 1
    /\ nMetadata >= 2
    /\ Len(waiterResults) >= 2
    /\ waiterResults[1] = "completed"
    /\ waiterResults[Len(waiterResults)] = "completed"

\* C11: the drain of a barge-in takes no Final off the queue that was put there
\* after the Partial which scheduled that barge-in.
C11_DrainOnlyStale == lostFinals = {}

\* C12: a connection's cleanup deletes the registry entry of the call only when
\* that entry is the connection's own handler.
C12_CleanupRemovesOwnEntry == \A r \in cleanupRemoved : r.removed = r.by

\* C13: once a connection's teardown is complete, its recognizer and its
\* synthesizer are both back in their pools.
C13_PoolInstancesReleased ==
    \A c \in 1..MaxConnections : connPc[c] = "closed" => (~stt_held[c] /\ ~tts_held[c])

\* C14: in a handler's teardown the recognizer is stopped and returned to the pool
\* only after the router has been stopped.
C14_RouterStoppedFirst ==
    \A h \in 1..MaxConnections : \A x \in 1..Len(teardown[h]) :
        teardown[h][x] \in {"stt_client.stop", "stt_pool.release"}
            => \E y \in 1..(x - 1) : teardown[h][y] = "route_turn_thread.stop"

\* how often a step occurs in the stop log
Occurrences(step) == Cardinality({x \in 1..Len(stopLog) : stopLog[x] = step})

StopStepNames == {"cancel_current_processing", "processing_task.cancel", "recognizer.stop",
                  "thread_obj.join", "_cancel_current_playback"}

RetryableFailures == Cardinality({x \in 1..Len(outcomes) : outcomes[x] = "retryable"})

\* C17: the loop makes at most AOAI_RETRY_MAX_ATTEMPTS attempts; k retryable
\* failures and then a success are k + 1 attempts; failing retryably throughout
\* it re-raises after exactly AOAI_RETRY_MAX_ATTEMPTS attempts; a non-retryable
\* failure is re-raised on its own attempt, with no sleep after it.
C17_RetryAttempts ==
    /\ attempts <= AOAI_RETRY_MAX_ATTEMPTS
    /\ attempts = Len(outcomes)
    /\ \A x \in 1..(Len(outcomes) - 1) : outcomes[x] = "retryable"
    /\ Len(delays) = IF retryPc \in {"loop", "sleeping"} THEN attempts ELSE attempts - 1
    /\ retryPc = "returned" =>
        /\ outcomes[attempts] = "ok"
        /\ attempts = RetryableFailures + 1
        /\ RetryableFailures < AOAI_RETRY_MAX_ATTEMPTS
    /\ retryPc = "raised" =>
        \/ outcomes[attempts] = "retryable" /\ attempts = AOAI_RETRY_MAX_ATTEMPTS
        \/ outcomes[attempts] = "fatal"

\* the loop has given up after failing retryably on every attempt
C17_Witness ==
    /\ retryPc = "raised"
    /\ RetryableFailures = AOAI_RETRY_MAX_ATTEMPTS

\* C18: a sleep that follows a failure with a retry-after header of r >= 0 seconds
\* lasts at least r seconds.
C18_RetryAfterHonoured ==
    \A x \in 1..Len(delays) :
        (delays[x].info.present /\ delays[x].info.seconds >= 0)
            => delays[x].delay >= 10 * delays[x].info.seconds

\* C19: a flush happens at every occurrence of a terminator, also inside a longer
\* delta: while the stream is consumed no terminator is left waiting in the
\* buffer.
C19_FlushAtEveryTerminator ==
    flowPc = "stream" =>
        \A x \in 1..Len(Join(collected)) : Join(collected)[x] \notin TTS_END

UserMessages == Cardinality({x \in 1..Len(agent_history) : agent_history[x].role = "user"})

\* C20: the follow-up invocation after a tool call adds no user message, not even
\* an empty one: the history holds one user message per turn of the user.
C20_FollowupAddsNoUserMessage == UserMessages = turns

\* the mapped tones of the sequenceIds 1..n, concatenated
RECURSIVE MappedTones(_)
MappedTones(n) ==
    IF n = 0 THEN <<>>
    ELSE IF toneLog[n] \in DOMAIN tone_map
         THEN Append(MappedTones(n - 1), tone_map[toneLog[n]])
         ELSE MappedTones(n - 1)

NumericDigits == {"0", "1", "2", "3", "4", "5", "6", "7", "8", "9"}

\* the first 3 numeric digits of a sequence are the expected value
FirstDigitsMatch(sequence) ==
    LET digits == SelectSeq(sequence, LAMBDA c : c \in NumericDigits)
    IN  Len(digits) >= 3 /\ SubSeq(digits, 1, 3) = sample_value

\* C21: with the tones arriving in the order of their sequenceIds 1..n,
\* dtmf_sequence is the concatenation of the mapped tones, and dtmf_validated is
\* true exactly when the first 3 numeric digits of the sequence are "123".
C21_DtmfInOrder ==
    /\ dtmf_sequence = MappedTones(Cardinality(Delivered))
    /\ dtmf_validated <=> FirstDigitsMatch(dtmf_sequence)

\* C22: whatever the order of arrival, once the tones of all sequenceIds have
\* arrived (all of them mapped), dtmf_sequence has the tone of sequenceId k at
\* position k - 1.
C22_ToneAtItsIndex ==
    (Delivered = 1..MaxTones /\ \A k \in 1..MaxTones : toneLog[k] \in DOMAIN tone_map)
        => dtmf_sequence = [k \in 1..MaxTones |-> tone_map[toneLog[k]]]

\* C23: dtmf_validated, once true, is never set back to false.
C23_ValidatedOnce == [][dtmf_validated => dtmf_validated']_vars

\* C24: a Partial triggers the barge-in only if it has more than 3 non-blank
\* characters: every barge-in that cancelled and drained came from such a Partial.
C24_ShortPartialsIgnored ==
    \A i \in 1..MaxPartials : cancelChars[i] # 0 => cancelChars[i] > 3

\* C25: start_recognizer has been called before any AudioData frame is handed on
\* to be written to the recognizer, also with DTMF validation disabled and the
\* frame arriving before the first AudioMetadata.
C25_RecognizerStartedFirst == forwarded > 0 => recognizer_starts > 0

\* C26: a frame that is not valid JSON, or of an unknown kind or DtmfData, is
\* discarded: the gate state, the frame counters, the recognizer state and the
\* speech queue are as before, and the handler keeps running.
C26_BadFrameDiscarded ==
    [][discards' # discards =>
        UNCHANGED <<gateState, audioVars, bpVars, handler_running, recognizer_stopped,
                    speech_queue>>]_vars

\* the first frames of the call were discarded, and audio that came after them
\* has been written to the recognizer
C26_Witness ==
    /\ discards.n = MaxBadFrames
    /\ discards.after = 0
    /\ handler_running
    /\ written >= 1

\* the calls that hold a slot of the semaphore
Writers == nWriting + IF drainPc = "writing" THEN 1 ELSE 0

\* C27: at most MAX_CONCURRENT_AUDIO_TASKS frames are being written at a time and
\* the overflow buffer holds at most its maxsize; a frame is dropped only with the
\* semaphore saturated and the buffer full, and each drop adds one to
\* dropped_frames_count.
C27_BackpressureBounds ==
    /\ Writers <= MaxConcurrentAudioTasks
    /\ sem_value = MaxConcurrentAudioTasks - Writers
    /\ overflow <= AudioOverflowMaxsize
    /\ \A x \in 1..Len(dropLog) :
        dropLog[x].free = 0 /\ dropLog[x].buffered = AudioOverflowMaxsize
    /\ dropped_frames_count = Len(dropLog)

\* a frame has been dropped while the slots were taken and the buffer was full
C27_Witness ==
    /\ dropLog # <<>>
    /\ Writers = MaxConcurrentAudioTasks
    /\ overflow = AudioOverflowMaxsize

\* frames inside a call of _process_audio_with_backpressure or held by the drain task
InFlight == nAcquiring + nWriting + IF drainPc \in {"acquiring", "writing"} THEN 1 ELSE 0

\* C28: the non-silent AudioData frames received are the processed, the dropped,
\* the buffered and the ones in flight, and processed_frames_count counts only
\* frames written to the recognizer.
C28_CountersReflectReality ==
    /\ nNonSilent = processed_frames_count + dropped_frames_count + overflow + InFlight
    /\ processed_frames_count = written

\* C29: cancel_current_processing and _cancel_current_playback, invoked with no
\* task or with a task that has completed or been cancelled, leave the task as
\* it is and raise nothing: the barge-in that invoked them goes on to StopAudio.
C29_CancelIsNoOp ==
    [][(cancelInvoked' # cancelInvoked /\ (current_response_task = 0 \/ TaskDone(respTask)))
        => /\ respTask' = respTask
           /\ current_response_task' = current_response_task
           /\ \A i \in cancelInvoked' \ cancelInvoked : bpc'[i] = "sending"]_vars

\* the only task of the run had completed, its reference not yet cleared, when a
\* barge-in invoked the cancellation and went on
C29_Witness ==
    /\ Len(enqLog) = 1
    /\ current_response_task # 0
    /\ respTask.state = "done"
    /\ \E i \in cancelInvoked : bpc[i] = "sending" /\ bStartResp[i] = 0

\* the names the classification is stated with
StatedNames ==
    {<<"r", "a", "t", "e", "l", "i", "m", "i", "t">>,
     <<"t", "i", "m", "e", "o", "u", "t">>,
     <<"s", "e", "r", "v", "i", "c", "e", "u", "n", "a", "v", "a", "i", "l", "a", "b", "l", "e">>,
     <<"b", "a", "d", "g", "a", "t", "e", "w", "a", "y">>,
     <<"g", "a", "t", "e", "w", "a", "y", "t", "i", "m", "e", "o", "u", "t">>,
     <<"c", "o", "n", "n", "e", "c", "t", "i", "o", "n", "e", "r", "r", "o", "r">>,
     <<"a", "p", "i", "t", "i", "m", "e", "o", "u", "t">>}

StatedStatuses == {408, 425, 429, 500, 502, 503, 504}

\* C30: an exception is classified retryable if and only if its type name or
\* message matches one of ratelimit, timeout, serviceunavailable, badgateway,
\* gatewaytimeout, connectionerror, apitimeout, or its HTTP status is one of
\* 408, 425, 429, 500, 502, 503, 504
C30_RetryableClassification ==
    classified =>
        (should_retry <=>
            \/ \E k \in StatedNames :
                Contains(Lower(exc.name), k) \/ Contains(Lower(exc.message), k)
            \/ exc.status \in StatedStatuses)

\* C31: context.interrupt_count never decreases over the life of a call; no
\* handler, the handling of a final transcription included, lowers it
C31_InterruptCountMonotonic == [][interrupt_count' >= interrupt_count]_vars

\* the reset task of handler i has been created and has not run yet
ResetScheduled(i, ready) ==
    \E x \in 1..Len(ready) : ready[x].kind = "reset_start" /\ ready[x].i = i

\* C32: the steps of a barge-in are best-effort: a handler that set the flag and
\* reaches its end has called the router's cancel_current_processing and has
\* executed the StopAudio send, also when the cancelled task ended with an error or
\* the send raised, and at its end the flag reset is scheduled
C32_BargeInStepsBestEffort ==
    [][\A i \in 1..MaxPartials :
        (bpc[i] \in {"await_task", "sending"} /\ bpc'[i] = "done")
            => /\ i \in cancelInvoked'
               /\ i \in stopAudioSent' \cup stopAudioFailed'
               /\ ResetScheduled(i, loopReady')]_vars

\* a handler whose router cancel met an error has sent StopAudio and has ended,
\* and another one's send raised
C32_Witness ==
    /\ \E i \in cancelRaised : bpc[i] = "done" /\ i \in stopAudioSent
    /\ \E i \in stopAudioFailed : bpc[i] = "done"

\* C33: the single-flight flag is always eventually cleared: after every barge-in
\* that set it, whether its steps succeeded or failed, the reset timer clears it,
\* and a Partial that arrives later triggers a new barge-in
C33_FlagEventuallyCleared == barge_in_active ~> ~barge_in_active

\* a barge-in whose step failed was followed by one that passed the flag again
C33_Witness ==
    \E i \in cancelRaised \cup stopAudioFailed : \E j \in cancelInvoked :
        j > i /\ bpc[j] = "done" /\ ~barge_in_active

\* no tool call was part of the history
TextOnly == \A x \in 1..Len(agent_history) : agent_history[x].role \in {"user", "assistant"}
                /\ "tool_calls" \notin DOMAIN agent_history[x]

\* C34: a clean text-only turn appends exactly two messages to the agent history,
\* the user message with the transcript and then one assistant message whose
\* content is the full response text; no assistant content is appended twice,
\* neither per flushed chunk nor otherwise
C34_TextTurnAppendsTwo ==
    (flowPc = "done" /\ turns = 1 /\ TextOnly /\ Strip(Join(final_chunks)) # <<>>)
        => /\ Len(agent_history) = 2
           /\ agent_history[1].role = "user"
           /\ agent_history[2] = [role |-> "assistant", content |-> Strip(Join(final_chunks))]

\* the router took event k off the queue and processed it, or the overflow policy
\* dropped it
EventSettled(k) ==
    \/ k \in Range(llmInvocations) \cup Range(playbacks)
    \/ /\ k <= Len(enqLog)
       /\ k \notin QueuedIds
       /\ enqLog[k] = "error" \/ speech_queue.dropped_events > 0

\* C35: a turn whose orchestrator call or playback raises does not stop the
\* router: the error is absorbed at the turn boundary, the loop stays alive, and
\* the next event on the queue is eventually processed
C35_RouterSurvivesTurnError ==
    /\ [](routerPc # "exited")
    /\ \A k \in 1..MaxEvents : ((turnErrors # {} /\ k \in QueuedIds) ~> EventSettled(k))

\* an orchestrator call and a playback raised, and a later event was processed
C35_Witness ==
    /\ \E k \in turnErrors : enqLog[k] = "final"
    /\ \E k \in turnErrors : enqLog[k] \in DirectTypes
    /\ \E k \in Range(llmInvocations) \cup Range(playbacks) :
            \A j \in turnErrors : k > j
    /\ routerPc = "get"

\* C36: context writes are serialized per call with no lost update: what an event
\* handler wrote (dtmf_validated, the accumulated dtmf_sequence) is never
\* overwritten by a stale snapshot that the turn path persists
C36_NoLostUpdate ==
    [][store_history' # store_history
        => (dtmf_validated' = dtmf_validated /\ dtmf_sequence' = dtmf_sequence)]_vars

\* the ids a log holds, and how often it holds one
LogIds(log) == {log[k] : k \in 1..Len(log)}

TimesIn(log, id) == Cardinality({k \in 1..Len(log) : log[k] = id})

QueueIds == {speech_queue.items[k].id : k \in 1..Len(speech_queue.items)}

InHand == IF tpc = "idle" THEN {} ELSE {tEvent.id}

PendingIds == {pendingPuts[k].id : k \in 1..Len(pendingPuts)}

\* every event that left the queue is in exactly one of the three logs, once
C37_ExactlyOneOutcome ==
    \A id \in 1..Len(enqLog) :
        /\ TimesIn(processedLog, id) + TimesIn(drainedLog, id) + TimesIn(droppedLog, id) <= 1
        /\ (id \notin QueueIds \cup InHand \cup PendingIds)
            => TimesIn(processedLog, id) + TimesIn(drainedLog, id) + TimesIn(droppedLog, id) = 1

\* the events removed by overflow are the ones dropped_events counts
C37_DroppedCounted == speech_queue.dropped_events = Len(droppedLog)

\* the queue never holds more items than its capacity
C37_WithinCapacity == qsize(speech_queue) <= SpeechQueueMaxsize

\* C37: speech events are conserved while the recognizer thread's
\* put_nowait_or_drop_oldest interleaves with the router's get and a barge-in's
\* drain: every enqueued event ends in exactly one of processed once, dropped by
\* overflow and counted in dropped_events, or removed by a drain; and qsize never
\* exceeds the capacity
C37_SpeechEventConservation ==
    /\ C37_ExactlyOneOutcome
    /\ C37_DroppedCounted
    /\ C37_WithinCapacity

\* C38: in the queue-based handler a Final is routed to the orchestrator unless a
\* later Final supersedes it: a Partial that sets the barge-in flag after on_final
\* cleared it and before route_and_playback tests it never makes the queued Final
\* skip route_turn
C38_FinalNotSkipped ==
    \A k \in 1..MaxEvents : tasks[TaskOf(k)] = "skipped" => nFinals > k

\* the connections other than h whose recognizer, acquired and not released, is
\* the instance handler h was built with
OtherHolders(h) ==
    {d \in 1..MaxConnections \ {h} : stt_held[d] /\ recognizer_of[d] = recognizer_of[h]}

\* C39: a recognizer instance is back in the STT pool, or acquired by another
\* connection, only after the handler that uses it has been stopped
C39_RecognizerOwnedByOne ==
    \A h \in 1..MaxConnections :
        (recognizer_of[h] # 0 /\ stopRun[h] # StopDone)
            => (recognizer_of[h] \notin stt_free /\ OtherHolders(h) = {})

\* a tool-call response whose tool has not returned: the call is at work, or it
\* raised and ended the turn
ToolCallOpen == IF flowPc \in {"tool", "raised"} THEN 1 ELSE 0

\* C40: the tool follow-up re-enters process_gpt_response once per tool-call
\* response (whose tool returned) and never after a text-only response; the
\* turn is complete exactly when a stream ends without a tool call, and then the
\* re-entries made equal the tool-call responses received
C40_ToolFollowupTerminates ==
    /\ [](/\ reentries = tool_responses - ToolCallOpen
          /\ flowPc = "done" => (~tool.started /\ reentries = tool_responses))
    /\ [][/\ reentries' # reentries
              => (flowPc = "tool" /\ tool.started /\ reentries' = reentries + 1)
          /\ (flowPc = "stream" /\ flowPc' # "stream")
              => (flowPc' = "done" <=> ~tool.started)]_vars

C40_Witness ==
    /\ flowPc = "done"
    /\ reentries = 2
    /\ tool_responses = 2
    /\ Strip(Join(final_chunks)) # <<>>

====
